---- MODULE Spec2Model ----
(***************************************************************************)
(* A model of the ingestion pipeline (ParseWorkerPool and the parse        *)
(* worker) and of the statistics derivation engine (deriveStatistics) of   *)
(* TarkovStatsWeb.                                                         *)
(*                                                                         *)
(* The pool part is a state machine: the pool object's fields, the         *)
(* messages in flight between the main thread and each worker, and the     *)
(* promises handed to the callers.  The statistics part folds a list of    *)
(* parsed results, built one event at a time, into the Statistics record.  *)
(***************************************************************************)
EXTENDS Integers, Sequences, FiniteSets, TLC

VARIABLES
  \* ---- ParseWorkerPool fields (parseWorkerPool.ts:30-36)
  poolSize,          \* constructor argument
  workers,           \* this.workers, as the set of live worker ids
  availableWorkers,  \* this.availableWorkers, a stack of worker ids
  pendingTasks,      \* this.pendingTasks, a queue of PendingTask handles
  taskMap,           \* this.taskMap: task id -> PendingTask handle (0: none)
  isTerminated,      \* this.isTerminated
  \* ---- the environment of the pool
  channel,           \* per worker: the "parse" requests posted and not yet replied to
  tasks,             \* every ParseTask handed to parse(), in call order
  promise,           \* per task: the state of the promise parse() returned
  resolveCalls,      \* per task: how often its resolve function was called
  batches,           \* every parseAll() call: its tasks, completions, result
  errs,              \* worker error events raised so far
  lostTasks,         \* the tasks whose request died with a worker exception
  \* ---- deriveStatistics
  results,           \* the ParsedLogResult[] handed to deriveStatistics
  stats,             \* what deriveStatistics(results) returned
  \* ---- downsampleData
  data,              \* the points handed to downsampleData
  maxPoints,         \* its maxPoints argument
  sampled,           \* what downsampleData(data, maxPoints) returned
  \* ---- useLogImport
  hook,              \* the hook's state: progress, parsedResults, insights, ...
  imp,               \* the importFiles call that ran last: its files and position
  started,           \* importFiles calls so far
  \* ---- enrichInsights, enrichStatistics
  providers,         \* the GameDataProvider[] of the import
  questCache,        \* questCacheRef.current
  traderCache,       \* traderCacheRef.current
  itemCache,         \* itemCacheRef.current
  enriched,          \* the enrichment call that ran last: arguments, calls, result
  \* ---- importFiles calls that overlap
  imports            \* every importFiles call: its files and position

poolVars == <<poolSize, workers, availableWorkers, pendingTasks, taskMap,
              isTerminated, channel, tasks, promise, resolveCalls,
              batches, errs, lostTasks>>
statVars == <<results, stats>>
chartVars == <<data, maxPoints, sampled>>
hookVars == <<hook, imp, started>>
enrichVars == <<providers, questCache, traderCache, itemCache, enriched>>
overlapVars == <<imports>>
vars == <<poolVars, statVars, chartVars, hookVars, enrichVars, overlapVars>>

(***************************************************************************)
(* Bounds.                                                                 *)
(***************************************************************************)
MaxPool == 2
MaxTasks == 2
MaxErrors == 1
\* workers plus tasks of a pool whose queue is left to grow
MaxLoad == 4

Workers == 1..MaxPool
Handles == 1..(IF MaxLoad - 1 > MaxTasks THEN MaxLoad - 1 ELSE MaxTasks)

(***************************************************************************)
(* Promises and results.                                                   *)
(***************************************************************************)
\* A promise not yet settled.
Pending == [state |-> "pending", id |-> 0, success |-> FALSE, src |-> 0, error |-> "none"]

\* { id, success: true, result }: src is the task whose content was parsed.
Success(id, src) ==
  [state |-> "resolved", id |-> id, success |-> TRUE, src |-> src, error |-> "none"]

\* { id, success: false, error }
Failure(id, err) ==
  [state |-> "resolved", id |-> id, success |-> FALSE, src |-> 0, error |-> err]

\* The pool's mutable fields and the workers' request queues, as one value.
PoolState ==
  [avail |-> availableWorkers, pend |-> pendingTasks, tmap |-> taskMap,
   chan |-> channel, term |-> isTerminated, workers |-> workers]

NoMap == [i \in Handles |-> 0]
NoQueues == [w \in Workers |-> <<>>]

(***************************************************************************)
(* ParseWorkerPool.processNextTask                                         *)
(***************************************************************************)
\* A mutant: the task queued last is taken first.
ProcessNextTaskNewestFirst(P, T) ==
  IF P.term \/ P.pend = <<>> \/ P.avail = <<>> THEN P
  ELSE LET h == P.pend[Len(P.pend)]
           w == P.avail[Len(P.avail)]
       IN [P EXCEPT !.pend = SubSeq(@, 1, Len(@) - 1),
                    !.avail = SubSeq(@, 1, Len(@) - 1),
                    !.tmap[T[h].id] = h,
                    !.chan[w] = Append(@, [type |-> "parse", id |-> T[h].id, src |-> h])]

\* A mutant: the task is posted to the worker but never entered in taskMap.
ProcessNextTaskNoMapEntry(P, T) ==
  IF P.term \/ P.pend = <<>> \/ P.avail = <<>> THEN P
  ELSE LET h == Head(P.pend)
           w == P.avail[Len(P.avail)]
       IN [P EXCEPT !.pend = Tail(@),
                    !.avail = SubSeq(@, 1, Len(@) - 1),
                    !.chan[w] = Append(@, [type |-> "parse", id |-> T[h].id, src |-> h])]

ProcessNextTask(P, T) ==
  IF P.term THEN P
  ELSE IF P.pend = <<>> THEN P
  ELSE IF P.avail = <<>> THEN P
  ELSE LET h == Head(P.pend)
           w == P.avail[Len(P.avail)]
       IN [P EXCEPT !.pend = Tail(@),
                    !.avail = SubSeq(@, 1, Len(@) - 1),
                    !.tmap[T[h].id] = h,
                    !.chan[w] = Append(@, [type |-> "parse", id |-> T[h].id, src |-> h])]

(***************************************************************************)
(* ParseWorkerPool.parse: the pool after the call, and the promise it      *)
(* returns.                                                                *)
(***************************************************************************)
\* A mutant: no check of isTerminated.
ParseCallEnqueueAlways(P, T, h) ==
  ProcessNextTask([P EXCEPT !.pend = Append(@, h)], T)

ParseCall(P, T, h) ==
  IF P.term THEN P
  ELSE ProcessNextTask([P EXCEPT !.pend = Append(@, h)], T)

ParsePromise(P, id) ==
  IF P.term THEN Failure(id, "Worker pool has been terminated") ELSE Pending

\* tasks.map((task) => this.parse(task)): the calls run one after the other.
RECURSIVE ParseEach(_, _, _)
ParseEach(P, T, hs) ==
  IF hs = <<>> THEN P ELSE ParseEach(ParseCall(P, T, Head(hs)), T, Tail(hs))

(***************************************************************************)
(* ParseWorkerPool.parseAll: Promise.all over the per-task promises.       *)
(***************************************************************************)
AllResolved(pr, hs) == \A i \in 1..Len(hs) : pr[hs[i]].state = "resolved"

\* A mutant: the results collected in completion order.
SettledInCompletionOrder(pr, b) == [i \in 1..Len(b.order) |-> pr[b.order[i]]]

\* Promise.all keeps the order of its input.
Settled(pr, b) == [i \in 1..Len(b.hs) |-> pr[b.hs[i]]]

\* The .then callback of task h ran (completed++, onProgress), and parseAll
\* returned if that was the last one.
\* A mutant: onProgress is called before completed++.
CompleteCountsLate(bs, pr, h, bi) ==
  IF bi = 0 THEN bs
  ELSE LET b1 == [bs[bi] EXCEPT
                    !.order = Append(@, h),
                    !.completed = @ + 1,
                    !.calls = Append(@, [completed |-> bs[bi].completed,
                                         total |-> Len(bs[bi].hs),
                                         latest |-> pr[h]])]
           b2 == IF AllResolved(pr, b1.hs)
                   THEN [b1 EXCEPT !.results = Settled(pr, b1)]
                   ELSE b1
       IN [bs EXCEPT ![bi] = b2]

\* the .then callback of parseAll on the task h of batch bi: completed++,
\* onProgress?.(completed, tasks.length, result), and parseAll's return
\* when it was the last one
Complete(bs, pr, h, bi) ==
  IF bi = 0 THEN bs
  ELSE LET b1 == [bs[bi] EXCEPT
                    !.order = Append(@, h),
                    !.completed = @ + 1,
                    !.calls = Append(@, [completed |-> bs[bi].completed + 1,
                                         total |-> Len(bs[bi].hs),
                                         latest |-> pr[h]])]
           b2 == IF AllResolved(pr, b1.hs)
                   THEN [b1 EXCEPT !.results = Settled(pr, b1)]
                   ELSE b1
       IN [bs EXCEPT ![bi] = b2]

RECURSIVE CompleteEach(_, _, _, _)
CompleteEach(bs, pr, hs, bi) ==
  IF hs = <<>> THEN bs
  ELSE CompleteEach(Complete(bs, pr, Head(hs), bi), pr, Tail(hs), bi)

(***************************************************************************)
(* ParseWorkerPool.terminate                                               *)
(***************************************************************************)
\* A mutant: the pending queue is kept.
TerminateKeepQueue(P) ==
  [P EXCEPT !.term = TRUE, !.workers = {}, !.avail = <<>>, !.tmap = NoMap]

TerminateCall(P) ==
  [P EXCEPT !.term = TRUE, !.workers = {}, !.avail = <<>>, !.pend = <<>>,
            !.tmap = NoMap]

\* getStatus()
GetStatus ==
  [totalWorkers |-> Cardinality(workers),
   availableWorkers |-> Len(availableWorkers),
   pendingTasks |-> Len(pendingTasks),
   isTerminated |-> isTerminated]

(***************************************************************************)
(* The worker: ctx.onmessage                                               *)
(***************************************************************************)
\* A mutant: a parse failure is not reported.
WorkerReplyAlwaysResult(m, bad) == [type |-> "result", id |-> m.id, src |-> m.src]

\* parseText returned: "result"; it threw: "error".
WorkerReply(m, bad) ==
  IF bad THEN [type |-> "error", id |-> m.id, src |-> m.src]
  ELSE [type |-> "result", id |-> m.id, src |-> m.src]

(***************************************************************************)
(* worker.onmessage on the main thread: the promise resolved, if any.      *)
(***************************************************************************)
\* A mutant: the reply's type is not looked at.
OnMessageResultAlwaysSuccess(m) == Success(m.id, m.src)

OnMessageResult(m) ==
  IF m.type = "result" THEN Success(m.id, m.src)
  ELSE Failure(m.id, "parse error")

(***************************************************************************)
(* JavaScript values, as deriveStatistics sees them.  An event's fields    *)
(* bag and a result's meta are maps from a key to a tagged value; a key    *)
(* that is missing reads as undefined.                                     *)
(***************************************************************************)
Undef == [t |-> "undefined"]
Null == [t |-> "null"]
Num(n) == [t |-> "number", v |-> n]
Str(s) == [t |-> "string", v |-> s]
Bool(b) == [t |-> "boolean", v |-> b]
\* An ISO timestamp string; v orders them as the strings compare.
Ts(n) == [t |-> "timestamp", v |-> n]

EmptyMap == [k \in {} |-> 0]
Get(m, k, d) == IF k \in DOMAIN m THEN m[k] ELSE d
Put(m, k, v) == [x \in DOMAIN m \cup {k} |-> IF x = k THEN v ELSE m[x]]
\* m[k] = (m[k] ?? 0) + n
Add(m, k, n) == Put(m, k, Get(m, k, 0) + n)
FieldOf(e, k) == Get(e.fields, k, Undef)

\* if (v): JavaScript truthiness
Truthy(v) ==
  CASE v.t = "undefined" -> FALSE
    [] v.t = "number" -> v.v # 0
    [] v.t = "string" -> v.v # ""
    [] v.t = "boolean" -> v.v
    [] v.t = "null" -> FALSE
    [] OTHER -> TRUE

\* String(v), and a value used as a property key
KeyOf(v) ==
  CASE v.t = "number" -> ToString(v.v)
    [] v.t = "boolean" -> IF v.v THEN "true" ELSE "false"
    [] v.t = "undefined" -> "undefined"
    [] OTHER -> v.v

\* event.eventFamily when the event has none
NoFamily == "(undefined)"

(***************************************************************************)
(* The texts of the model: what toLowerCase, includes and the regular      *)
(* expressions of analytics.ts make of each message, status and path.      *)
(***************************************************************************)
QuestA == "5ac23c6186f7746d5d0c1a9e"
QuestB == "5936d90786f7742b1420ba5b"

\* s.toLowerCase()
Lower(s) ==
  CASE s = "Success" -> "success"
    [] s = "Completed" -> "completed"
    [] s = "Failed" -> "failed"
    [] s = "Started" -> "started"
    [] s = "BattlEye: init" -> "battleye: init"
    [] s = "BattlEye error" -> "battleye error"
    [] s = "Quest 5AC23C6186F7746D5D0C1A9E Started" -> "quest 5ac23c6186f7746d5d0c1a9e started"
    [] OTHER -> s

\* s.includes(kw), for a lower-cased s
Includes(s, kw) ==
  kw \in (CASE s = "completed" -> {"completed"}
            [] s = "battleye: init" -> {"battleye"}
            [] s = "battleye error" -> {"battleye"}
            [] s = "failed" -> {"fail"}
            [] s = "started" -> {"start"}
            [] s = "quest 5ac23c6186f7746d5d0c1a9e started" -> {"start"}
            [] s = "quest 5ac23c6186f7746d5d0c1a9e description" -> {"description"}
            [] s = "quest 5936d90786f7742b1420ba5b completed" -> {"completed"}
            [] OTHER -> {})

\* msg.match(/\b([0-9a-f]{24})\b/i): the token found, as written; "" if none
Hex24(msg) ==
  CASE msg = "Quest 5AC23C6186F7746D5D0C1A9E Started" -> "5AC23C6186F7746D5D0C1A9E"
    [] msg = "quest 5ac23c6186f7746d5d0c1a9e description" -> QuestA
    [] msg = "quest 5936d90786f7742b1420ba5b completed" -> QuestB
    [] OTHER -> ""

\* extractSessionPrefix(filePath)
ExtractSessionPrefix(filePath) ==
  IF ~Truthy(filePath) THEN Undef
  ELSE CASE filePath.v = "log_2025.01.15_14-30-00/errors.log" -> Str("log_2025.01.15_14-30-00")
         [] filePath.v = "log_2025.01.15_14-30-00/application.log" -> Str("log_2025.01.15_14-30-00")
         [] filePath.v = "C:\\Logs\\log_2025.02.01_09-00-00_1.0\\backend.log" -> Str("log_2025.02.01_09-00-00_1.0")
         [] OTHER -> Undef

\* a ?? b
Coalesce(a, b) == IF a.t = "undefined" THEN b ELSE a

(***************************************************************************)
(* Numbers that are not integers (the running averages): n / d, reduced.   *)
(***************************************************************************)
RECURSIVE Gcd(_, _)
Gcd(a, b) == IF b = 0 THEN a ELSE Gcd(b, a % b)
Abs(x) == IF x < 0 THEN -x ELSE x
Rat(n, d) ==
  LET g == Gcd(Abs(n), Abs(d)) IN
  IF n = 0 THEN [n |-> 0, d |-> 1] ELSE [n |-> n \div g, d |-> d \div g]

\* avg + (x - avg) / n
RunningAverage(avg, x, n) == Rat(avg.n * n + (x * avg.d - avg.n), avg.d * n)

(***************************************************************************)
(* deriveStatistics: the aggregates it starts from (analytics.ts:40-58).   *)
(* thrown is not a field of Statistics: it records that the pass ended in  *)
(* an exception instead of returning.                                      *)
(***************************************************************************)
ZeroAggregates ==
  [backend |-> [totalRequests |-> 0, totalResponses |-> 0, totalErrors |-> 0,
                retries |-> 0, byStatusCode |-> EmptyMap, byEndpoint |-> EmptyMap],
   cache |-> [hits |-> 0, misses |-> 0],
   inventory |-> [totalRejections |-> 0, byOperation |-> EmptyMap,
                  byCode |-> EmptyMap, items |-> EmptyMap],
   network |-> [connections |-> 0, disconnects |-> 0, timeouts |-> 0,
                byAddress |-> EmptyMap, metrics |-> [k \in {"samples"} |-> 0]],
   push |-> [connections |-> 0, drops |-> 0, notifications |-> 0],
   audio |-> [initSuccess |-> 0, occlusionErrors |-> 0],
   errors |-> [totals |-> 0, byFamily |-> EmptyMap],
   matchmaking |-> [groupIds |-> <<>>, events |-> <<>>],
   anticheat |-> [initLines |-> 0, errors |-> 0, lastStatus |-> Undef],
   quests |-> <<>>,
   traders |-> EmptyMap,
   items |-> EmptyMap,
   thrown |-> FALSE]

\* upsertResolved(target, id, kind)
UpsertResolved(target, id, kind) ==
  IF id \in DOMAIN target THEN target ELSE Put(target, id, [id |-> id, kind |-> kind])

\* accumulateBackend
AccumulateBackend(e, A) ==
  IF e.logType # "backend" THEN A
  ELSE LET url == FieldOf(e, "url")
           code == FieldOf(e, "responseCode")
           b == A.backend
           withCode(x) == IF Truthy(code)
                            THEN [x EXCEPT !.byStatusCode = Add(@, KeyOf(code), 1)]
                            ELSE x
           withUrl(x) == IF Truthy(url)
                           THEN [x EXCEPT !.byEndpoint = Add(@, KeyOf(url), 1)]
                           ELSE x
       IN [A EXCEPT !.backend =
             CASE e.eventFamily = "request" ->
                    withUrl([b EXCEPT !.totalRequests = @ + 1])
               [] e.eventFamily = "response" ->
                    withUrl(withCode([b EXCEPT !.totalResponses = @ + 1]))
               [] e.eventFamily \in {"transport_error", "server_exception"} ->
                    withCode([b EXCEPT !.totalErrors = @ + 1])
               [] e.eventFamily = "retry" -> [b EXCEPT !.retries = @ + 1]
               [] OTHER -> b]

\* accumulateCache
AccumulateCache(e, A) ==
  IF e.logType # "backendCache" THEN A
  ELSE IF FieldOf(e, "cacheHit") = Bool(FALSE)
         THEN [A EXCEPT !.cache.misses = @ + 1]
         ELSE [A EXCEPT !.cache.hits = @ + 1]

\* accumulateInventory
AccumulateInventory(e, A) ==
  IF e.logType # "inventory" THEN A
  ELSE LET op == FieldOf(e, "operationType")
           code == FieldOf(e, "code")
           itemId == FieldOf(e, "itemId")
           i1 == [A.inventory EXCEPT !.totalRejections = @ + 1]
           i2 == IF Truthy(op) THEN [i1 EXCEPT !.byOperation = Add(@, KeyOf(op), 1)] ELSE i1
           i3 == IF code # Undef THEN [i2 EXCEPT !.byCode = Add(@, KeyOf(code), 1)] ELSE i2
           i4 == IF Truthy(itemId) THEN [i3 EXCEPT !.items = Add(@, KeyOf(itemId), 1)] ELSE i3
       IN [A EXCEPT !.inventory = i4,
                    !.items = IF Truthy(itemId)
                                THEN UpsertResolved(@, KeyOf(itemId), "item") ELSE @]

\* total = (total ?? 0) + fields[k], when typeof fields[k] === "number"
AddNumber(metrics, total, e, k) ==
  IF FieldOf(e, k).t = "number" THEN Add(metrics, total, FieldOf(e, k).v) ELSE metrics

\* A mutant: a timeout is counted for the pool of connections only, not for
\* its address.
AccumulateNetworkTimeoutGlobalOnly(e, A) ==
  LET n == A.network
      addr == KeyOf(Coalesce(FieldOf(e, "address"), Str("unknown")))
      entry == Get(n.byAddress, addr, [connect |-> 0, disconnect |-> 0, timeout |-> 0])
      n0 == [n EXCEPT !.byAddress = Put(@, addr, entry)]
      rtt == FieldOf(e, "rtt")
      m1 == IF rtt.t = "number"
              THEN LET k == Get(n.metrics, "rttSamples", 0) + 1
                   IN Put(Put(n.metrics, "rttSamples", k), "rttAvg",
                          RunningAverage(Get(n.metrics, "rttAvg", Rat(0, 1)), rtt.v, k))
              ELSE n.metrics
      m2 == AddNumber(m1, "totalPacketsLost", e, "packetsLost")
      m3 == AddNumber(m2, "totalPacketsSent", e, "packetsSent")
      m4 == AddNumber(m3, "totalPacketsReceived", e, "packetsReceived")
      conn ==
        CASE e.eventFamily \in {"connect", "state_enter"} ->
               [n0 EXCEPT !.connections = @ + 1, !.byAddress[addr].connect = @ + 1]
          [] e.eventFamily \in {"disconnect", "send_disconnect"} ->
               [n0 EXCEPT !.disconnects = @ + 1, !.byAddress[addr].disconnect = @ + 1]
          [] e.eventFamily = "timeout" ->
               [n0 EXCEPT !.timeouts = @ + 1]
          [] e.eventFamily = "statistics" -> [n0 EXCEPT !.metrics = m4]
          [] OTHER -> n0
      rpi == FieldOf(e, "rpi")
      lud == FieldOf(e, "lud")
      samples == n.metrics["samples"] + 1
      s1 == Put(n.metrics, "samples", samples)
      s2 == IF rpi.t = "number"
              THEN Put(s1, "rpiAvg",
                       RunningAverage(Get(s1, "rpiAvg", Rat(0, 1)), rpi.v, samples))
              ELSE s1
      s3 == IF lud.t = "number"
              THEN Put(s2, "ludAvg",
                       RunningAverage(Get(s2, "ludAvg", Rat(0, 1)), lud.v, samples))
              ELSE s2
  IN CASE e.logType = "network-connection" -> [A EXCEPT !.network = conn]
       [] e.logType = "network-messages" -> [A EXCEPT !.network.metrics = s3]
       [] OTHER -> A

\* accumulateNetwork
AccumulateNetwork(e, A) ==
  LET n == A.network
      addr == KeyOf(Coalesce(FieldOf(e, "address"), Str("unknown")))
      entry == Get(n.byAddress, addr, [connect |-> 0, disconnect |-> 0, timeout |-> 0])
      n0 == [n EXCEPT !.byAddress = Put(@, addr, entry)]
      rtt == FieldOf(e, "rtt")
      m1 == IF rtt.t = "number"
              THEN LET k == Get(n.metrics, "rttSamples", 0) + 1
                   IN Put(Put(n.metrics, "rttSamples", k), "rttAvg",
                          RunningAverage(Get(n.metrics, "rttAvg", Rat(0, 1)), rtt.v, k))
              ELSE n.metrics
      m2 == AddNumber(m1, "totalPacketsLost", e, "packetsLost")
      m3 == AddNumber(m2, "totalPacketsSent", e, "packetsSent")
      m4 == AddNumber(m3, "totalPacketsReceived", e, "packetsReceived")
      conn ==
        CASE e.eventFamily \in {"connect", "state_enter"} ->
               [n0 EXCEPT !.connections = @ + 1, !.byAddress[addr].connect = @ + 1]
          [] e.eventFamily \in {"disconnect", "send_disconnect"} ->
               [n0 EXCEPT !.disconnects = @ + 1, !.byAddress[addr].disconnect = @ + 1]
          [] e.eventFamily = "timeout" ->
               [n0 EXCEPT !.timeouts = @ + 1, !.byAddress[addr].timeout = @ + 1]
          [] e.eventFamily = "statistics" -> [n0 EXCEPT !.metrics = m4]
          [] OTHER -> n0
      rpi == FieldOf(e, "rpi")
      lud == FieldOf(e, "lud")
      samples == n.metrics["samples"] + 1
      s1 == Put(n.metrics, "samples", samples)
      s2 == IF rpi.t = "number"
              THEN Put(s1, "rpiAvg",
                       RunningAverage(Get(s1, "rpiAvg", Rat(0, 1)), rpi.v, samples))
              ELSE s1
      s3 == IF lud.t = "number"
              THEN Put(s2, "ludAvg",
                       RunningAverage(Get(s2, "ludAvg", Rat(0, 1)), lud.v, samples))
              ELSE s2
  IN CASE e.logType = "network-connection" -> [A EXCEPT !.network = conn]
       [] e.logType = "network-messages" -> [A EXCEPT !.network.metrics = s3]
       [] OTHER -> A

\* A mutant: a dropped push notification takes back a connection.
AccumulatePushDropUncounts(e, A) ==
  IF e.logType # "push-notifications" THEN A
  ELSE CASE e.eventFamily = "connection_params" -> [A EXCEPT !.push.connections = @ + 1]
         [] e.eventFamily = "dropped" ->
              [A EXCEPT !.push.drops = @ + 1, !.push.connections = @ - 1]
         [] e.eventFamily \in {"notification", "simple_notification"} ->
              [A EXCEPT !.push.notifications = @ + 1]
         [] OTHER -> A

\* accumulatePush
AccumulatePush(e, A) ==
  IF e.logType # "push-notifications" THEN A
  ELSE CASE e.eventFamily = "connection_params" -> [A EXCEPT !.push.connections = @ + 1]
         [] e.eventFamily = "dropped" -> [A EXCEPT !.push.drops = @ + 1]
         [] e.eventFamily \in {"notification", "simple_notification"} ->
              [A EXCEPT !.push.notifications = @ + 1]
         [] OTHER -> A

\* accumulateAudio
AccumulateAudio(e, A) ==
  IF e.logType # "spatial-audio" THEN A
  ELSE CASE e.eventFamily = "init_success" -> [A EXCEPT !.audio.initSuccess = @ + 1]
         [] e.eventFamily = "occlusion_error" -> [A EXCEPT !.audio.occlusionErrors = @ + 1]
         [] OTHER -> A

\* A mutant: every event at level "Error" counts as an error.
AccumulateErrorsByLevel(e, A) ==
  IF e.logType # "errors" /\ e.level # "Error" THEN A
  ELSE LET family == IF e.eventFamily = NoFamily THEN "unknown" ELSE e.eventFamily
       IN [A EXCEPT !.errors.totals = @ + 1,
                    !.errors.byFamily = Add(@, family, 1)]

\* accumulateErrors
AccumulateErrors(e, A) ==
  IF e.logType # "errors" THEN A
  ELSE LET family == IF e.eventFamily = NoFamily THEN "unknown" ELSE e.eventFamily
       IN [A EXCEPT !.errors.totals = @ + 1,
                    !.errors.byFamily = Add(@, family, 1)]

SeqIncludes(q, x) == \E i \in 1..Len(q) : q[i] = x

\* accumulateMatchmaking
AccumulateMatchmaking(e, A) ==
  IF e.logType # "application" \/ e.eventFamily # "matchmaking" THEN A
  ELSE LET groupId == FieldOf(e, "groupId")
       IN [A EXCEPT !.matchmaking.events = Append(@, e),
                    !.matchmaking.groupIds =
                       IF Truthy(groupId) /\ ~SeqIncludes(@, groupId)
                         THEN Append(@, groupId) ELSE @]

\* accumulateAnticheat: event.message.toLowerCase() throws when the message
\* is no string.
AccumulateAnticheat(e, A) ==
  IF e.logType # "application" THEN A
  ELSE LET a1 == IF e.eventFamily = "anticheat"
                   THEN [A EXCEPT !.anticheat.initLines = @ + 1,
                                  !.anticheat.lastStatus = e.message]
                   ELSE A
       IN IF e.eventFamily # "error" THEN a1
          ELSE IF e.message.t # "string" THEN [a1 EXCEPT !.thrown = TRUE]
          ELSE IF Includes(Lower(e.message.v), "battleye")
                 THEN [a1 EXCEPT !.anticheat.errors = @ + 1]
                 ELSE a1

\* findQuestId(event): "" stands for undefined
FindQuestId(e) ==
  LET msg == IF e.message.t = "string" THEN e.message.v ELSE ""
  IN IF Hex24(msg) # "" THEN Hex24(msg)
     ELSE IF Truthy(FieldOf(e, "questId")) THEN KeyOf(FieldOf(e, "questId"))
     ELSE ""

QuestIndex(qs, id) ==
  IF \E i \in 1..Len(qs) : qs[i].id = id
    THEN CHOOSE i \in 1..Len(qs) : qs[i].id = id
    ELSE 0

NewQuest(id) ==
  [id |-> id, status |-> "unknown", relatedEvents |-> <<>>, traderId |-> Undef,
   traderName |-> Undef, rewardRubles |-> Undef, rewardItems |-> Undef]

\* rewardItems[tpl] = (rewardItems[tpl] ?? 0) + cnt, for every entry
AddCounts(m, counts) ==
  [k \in DOMAIN m \cup DOMAIN counts |-> Get(m, k, 0) + Get(counts, k, 0)]

\* rewardItems[tpl] = (rewardItems[tpl] ?? 0) + 1, for every element
RECURSIVE AddEach(_, _)
AddEach(m, tpls) ==
  IF tpls = <<>> THEN m ELSE AddEach(Add(m, Head(tpls), 1), Tail(tpls))

\* A mutant: a start text sets "started" whatever the status was.
QuestStatusAfterAlwaysStarted(status, questStatus) ==
  IF Includes(questStatus, "completed") \/ questStatus = "success" THEN "completed"
  ELSE IF Includes(questStatus, "fail") THEN "failed"
  ELSE IF Includes(questStatus, "start") \/ Includes(questStatus, "description")
    THEN "started"
  ELSE status

\* the status transition of accumulateQuest
QuestStatusAfter(status, questStatus) ==
  IF Includes(questStatus, "completed") \/ questStatus = "success" THEN "completed"
  ELSE IF Includes(questStatus, "fail") THEN "failed"
  ELSE IF Includes(questStatus, "start") \/ Includes(questStatus, "description")
    THEN (IF status = "unknown" THEN "started" ELSE status)
  ELSE status

\* A mutant: the trader id of the latest event is kept.
AccumulateQuestLastTrader(e, A) ==
  LET questId == FindQuestId(e)
      at == QuestIndex(A.quests, questId)
      qs == IF at = 0 THEN Append(A.quests, NewQuest(questId)) ELSE A.quests
      i == IF at = 0 THEN Len(qs) ELSE at
      q0 == [qs[i] EXCEPT !.relatedEvents = Append(@, e)]
      fs == FieldOf(e, "questStatus")
      questStatus == IF fs.t = "string" THEN Lower(fs.v)
                     ELSE IF e.message.t = "string" THEN Lower(e.message.v)
                     ELSE ""
      q1 == [q0 EXCEPT !.status = QuestStatusAfter(@, questStatus)]
      rewardRub == FieldOf(e, "questRewardRubles")
      q2 == IF rewardRub.t = "number"
              THEN [q1 EXCEPT !.rewardRubles =
                      Num((IF @.t = "number" THEN @.v ELSE 0) + rewardRub.v)]
              ELSE q1
      counts == FieldOf(e, "questRewardItemsCounts")
      items == FieldOf(e, "questRewardItems")
      r0 == IF q2.rewardItems.t = "object" THEN q2.rewardItems.v ELSE EmptyMap
      r1 == IF counts.t = "object" THEN AddCounts(r0, counts.v) ELSE r0
      r2 == IF items.t = "array" THEN AddEach(r1, items.v) ELSE r1
      q3 == IF Truthy(counts) \/ Truthy(items)
              THEN [q2 EXCEPT !.rewardItems = [t |-> "object", v |-> r2]]
              ELSE q2
      trader == FieldOf(e, "questTraderId")
      first == Truthy(trader)
      q4 == IF first THEN [q3 EXCEPT !.traderId = trader] ELSE q3
      throws == \/ fs.t \notin {"undefined", "string"}
                \/ (fs.t = "undefined" /\ e.message.t \notin {"undefined", "string"})
                \/ (Truthy(items) /\ items.t \in {"number", "boolean"})
  IN IF questId = "" THEN A
     ELSE IF throws THEN [A EXCEPT !.thrown = TRUE]
     ELSE [A EXCEPT !.quests = [qs EXCEPT ![i] = q4],
                    !.traders = IF first THEN UpsertResolved(@, KeyOf(trader), "trader")
                                ELSE @]

\* accumulateQuest.  The fields read are undefined, a number, a string, an
\* array of strings (questRewardItems) or an object of numbers
\* (questRewardItemsCounts).  toLowerCase() of a questStatus that is neither
\* undefined nor a string throws, and so does the iteration of a
\* questRewardItems that is a number or a boolean.
AccumulateQuest(e, A) ==
  LET questId == FindQuestId(e)
      at == QuestIndex(A.quests, questId)
      qs == IF at = 0 THEN Append(A.quests, NewQuest(questId)) ELSE A.quests
      i == IF at = 0 THEN Len(qs) ELSE at
      q0 == [qs[i] EXCEPT !.relatedEvents = Append(@, e)]
      fs == FieldOf(e, "questStatus")
      questStatus == IF fs.t = "string" THEN Lower(fs.v)
                     ELSE IF e.message.t = "string" THEN Lower(e.message.v)
                     ELSE ""
      q1 == [q0 EXCEPT !.status = QuestStatusAfter(@, questStatus)]
      rewardRub == FieldOf(e, "questRewardRubles")
      q2 == IF rewardRub.t = "number"
              THEN [q1 EXCEPT !.rewardRubles =
                      Num((IF @.t = "number" THEN @.v ELSE 0) + rewardRub.v)]
              ELSE q1
      counts == FieldOf(e, "questRewardItemsCounts")
      items == FieldOf(e, "questRewardItems")
      r0 == IF q2.rewardItems.t = "object" THEN q2.rewardItems.v ELSE EmptyMap
      r1 == IF counts.t = "object" THEN AddCounts(r0, counts.v) ELSE r0
      r2 == IF items.t = "array" THEN AddEach(r1, items.v) ELSE r1
      q3 == IF Truthy(counts) \/ Truthy(items)
              THEN [q2 EXCEPT !.rewardItems = [t |-> "object", v |-> r2]]
              ELSE q2
      trader == FieldOf(e, "questTraderId")
      first == ~Truthy(q3.traderId) /\ Truthy(trader)
      q4 == IF first THEN [q3 EXCEPT !.traderId = trader] ELSE q3
      throws == \/ fs.t \notin {"undefined", "string"}
                \/ (fs.t = "undefined" /\ e.message.t \notin {"undefined", "string"})
                \/ (Truthy(items) /\ items.t \in {"number", "boolean"})
  IN IF questId = "" THEN A
     ELSE IF throws THEN [A EXCEPT !.thrown = TRUE]
     ELSE [A EXCEPT !.quests = [qs EXCEPT ![i] = q4],
                    !.traders = IF first THEN UpsertResolved(@, KeyOf(trader), "trader")
                                ELSE @]

\* the body of the loop of deriveStatistics (analytics.ts:62-71); an
\* exception ends the pass
Accumulate(A, e) ==
  IF A.thrown THEN A
  ELSE LET a1 == AccumulateBackend(e, A)
           a2 == AccumulateCache(e, a1)
           a3 == AccumulateInventory(e, a2)
           a4 == AccumulateNetwork(e, a3)
           a5 == AccumulatePush(e, a4)
           a6 == AccumulateAudio(e, a5)
           a7 == AccumulateErrors(e, a6)
           a8 == AccumulateMatchmaking(e, a7)
           a9 == AccumulateAnticheat(e, a8)
       IN IF a9.thrown THEN a9 ELSE AccumulateQuest(e, a9)

RECURSIVE FoldEvents(_, _)
FoldEvents(A, es) ==
  IF es = <<>> THEN A ELSE FoldEvents(Accumulate(A, Head(es)), Tail(es))

RECURSIVE FoldResults(_, _)
FoldResults(A, rs) ==
  IF rs = <<>> THEN A ELSE FoldResults(FoldEvents(A, Head(rs).events), Tail(rs))

\* countLevels(events)
CountLevels(es) ==
  [events |-> Len(es),
   errors |-> Cardinality({i \in 1..Len(es) : es[i].level = "Error"}),
   warnings |-> Cardinality({i \in 1..Len(es) : es[i].level \in {"Warn", "Warning"}})]

\* the session id of a result (analytics.ts:96)
SessionId(res) ==
  KeyOf(Coalesce(Get(res.meta, "sessionPrefix", Undef),
                 Coalesce(ExtractSessionPrefix(res.filePath), Str("unknown"))))

SessionIndex(ss, id) ==
  IF \E i \in 1..Len(ss) : ss[i].id = id
    THEN CHOOSE i \in 1..Len(ss) : ss[i].id = id
    ELSE 0

\* A mutant: every result starts a session of its own.
BuildSessionsNoMerge(ss, rs) ==
  [i \in 1..Len(rs) |->
     [id |-> SessionId(rs[i]),
      buildVersion |-> Get(rs[i].meta, "buildVersion", Undef),
      earliestTimestamp |-> Get(rs[i].meta, "earliestTimestamp", Undef),
      latestTimestamp |-> Get(rs[i].meta, "latestTimestamp", Undef),
      logTypes |-> <<rs[i].logType>>, totals |-> CountLevels(rs[i].events)]]

\* buildSessions(results)
RECURSIVE BuildSessions(_, _)
BuildSessions(ss, rs) ==
  IF rs = <<>> THEN ss
  ELSE LET res == Head(rs)
           sessionId == SessionId(res)
           at == SessionIndex(ss, sessionId)
           counts == CountLevels(res.events)
           early == Get(res.meta, "earliestTimestamp", Undef)
           late == Get(res.meta, "latestTimestamp", Undef)
           build == Get(res.meta, "buildVersion", Undef)
           fresh == [id |-> sessionId, buildVersion |-> build,
                     earliestTimestamp |-> early, latestTimestamp |-> late,
                     logTypes |-> <<res.logType>>, totals |-> counts]
           merged(x) ==
             [x EXCEPT
                !.totals = [events |-> @.events + counts.events,
                            errors |-> @.errors + counts.errors,
                            warnings |-> @.warnings + counts.warnings],
                !.logTypes = IF SeqIncludes(@, res.logType) THEN @
                             ELSE Append(@, res.logType),
                !.earliestTimestamp =
                   IF Truthy(early) /\ (~Truthy(@) \/ early.v < @.v) THEN early ELSE @,
                !.latestTimestamp =
                   IF Truthy(late) /\ (~Truthy(@) \/ late.v > @.v) THEN late ELSE @,
                !.buildVersion = IF ~Truthy(@) /\ Truthy(build) THEN build ELSE @]
       IN BuildSessions(IF at = 0 THEN Append(ss, fresh)
                        ELSE [ss EXCEPT ![at] = merged(ss[at])],
                        Tail(rs))

\* deriveStatistics(results)
DeriveStatistics(rs) ==
  LET A == FoldResults(ZeroAggregates, rs)
      sessions == BuildSessions(<<>>, rs)
  IN [k \in DOMAIN A \cup {"sessions"} |-> IF k = "sessions" THEN sessions ELSE A[k]]

(***************************************************************************)
(* The initial state: the pool as its constructor leaves it (initWorkers   *)
(* pushes worker 1..poolSize on both lists), nothing submitted, and        *)
(* nothing derived.                                                        *)
(***************************************************************************)
InitWorkers(n) == [i \in 1..n |-> i]

InitPool ==
  /\ poolSize \in 1..MaxPool
  /\ workers = 1..poolSize
  /\ availableWorkers = InitWorkers(poolSize)
  /\ pendingTasks = <<>>
  /\ taskMap = NoMap
  /\ isTerminated = FALSE
  /\ channel = NoQueues
  /\ tasks = <<>>
  /\ promise = <<>>
  /\ resolveCalls = <<>>
  /\ batches = <<>>
  /\ errs = 0
  /\ lostTasks = {}

SetPool(P) ==
  /\ availableWorkers' = P.avail
  /\ pendingTasks' = P.pend
  /\ taskMap' = P.tmap
  /\ channel' = P.chan
  /\ isTerminated' = P.term
  /\ workers' = P.workers

(***************************************************************************)
(* pool.parseAll(ts): every parse call, then (on a terminated pool, where  *)
(* every promise is already resolved) every .then callback in turn.  The   *)
(* callers of the pool (importFiles) reach parse() through parseAll only.  *)
(* A task's id is a new one (its own index) or, where the specification    *)
(* allows it, the id of an earlier task.                                   *)
(***************************************************************************)
NewTaskSeqs(n, unique) ==
  IF unique
    THEN {[i \in 1..n |-> [id |-> Len(tasks) + i, bad |-> b[i]]] :
            b \in [1..n -> BOOLEAN]}
    ELSE {s \in [1..n -> [id : Handles, bad : BOOLEAN]] :
            \A i \in 1..n : s[i].id <= Len(tasks) + i}

ParseAllWithin(ts, max) ==
  /\ Len(ts) >= 1
  /\ Len(tasks) + Len(ts) <= max
  /\ LET n == Len(ts)
         bi == Len(batches) + 1
         hs == [i \in 1..n |-> Len(tasks) + i]
         T == tasks \o [i \in 1..n |->
                          [id |-> ts[i].id, bad |-> ts[i].bad, batch |-> bi]]
         pr == promise \o [i \in 1..n |-> ParsePromise(PoolState, ts[i].id)]
         b == [hs |-> hs, order |-> <<>>, results |-> <<>>,
               live |-> ~isTerminated, completed |-> 0, calls |-> <<>>]
     IN /\ tasks' = T
        /\ SetPool(ParseEach(PoolState, T, hs))
        /\ promise' = pr
        /\ resolveCalls' = resolveCalls \o [i \in 1..n |-> 0]
        /\ batches' = IF isTerminated
                        THEN CompleteEach(Append(batches, b), pr, hs, bi)
                        ELSE Append(batches, b)
  /\ UNCHANGED <<poolSize, errs, lostTasks, statVars, chartVars>>

ParseAll(ts) == ParseAllWithin(ts, MaxTasks)

(***************************************************************************)
(* A reply reaches the main thread: the worker has handled the request at  *)
(* the head of its channel (ctx.onmessage) and worker.onmessage runs, with *)
(* the microtasks it starts (the .then callback of parseAll and, after the *)
(* last one, parseAll's return).  The handler belongs to the worker        *)
(* object, and runs for a reply that arrives after terminate() as well.    *)
(***************************************************************************)
OnMessage(w) ==
  /\ channel[w] # <<>>
  /\ Head(channel[w]).type = "parse"
  /\ LET m == WorkerReply(Head(channel[w]), tasks[Head(channel[w]).src].bad)
         h == taskMap[m.id]
         hit == h # 0
         pr == IF hit /\ promise[h].state = "pending"
                 THEN [promise EXCEPT ![h] = OnMessageResult(m)]
                 ELSE promise
         P1 == [PoolState EXCEPT !.tmap = IF hit THEN [@ EXCEPT ![m.id] = 0] ELSE @,
                                 !.avail = Append(@, w),
                                 !.chan[w] = Tail(@)]
     IN /\ promise' = pr
        /\ resolveCalls' = IF hit THEN [resolveCalls EXCEPT ![h] = @ + 1]
                           ELSE resolveCalls
        /\ batches' = IF hit /\ promise[h].state = "pending"
                        THEN Complete(batches, pr, h, tasks[h].batch)
                        ELSE batches
        /\ SetPool(ProcessNextTask(P1, tasks))
  /\ UNCHANGED <<poolSize, tasks, errs, lostTasks, statVars, chartVars>>

(***************************************************************************)
(* worker.onerror on the main thread: the worker's error event fired.      *)
(* With lost, the event is a worker-level exception raised while the       *)
(* worker handled the request at the head of its channel (a failure of the *)
(* worker script outside the try/catch of ctx.onmessage): that request     *)
(* gets no reply.  Without lost, the event costs no request (the worker    *)
(* was idle, or goes on to send its reply).                                *)
(***************************************************************************)
OnError(w, lost) ==
  /\ w \in 1..poolSize
  /\ errs < MaxErrors
  /\ lost => /\ channel[w] # <<>>
             /\ Head(channel[w]).type = "parse"
  /\ LET P1 == [PoolState EXCEPT !.avail = Append(@, w),
                                 !.chan[w] = IF lost THEN Tail(@) ELSE @]
     IN SetPool(ProcessNextTask(P1, tasks))
  /\ lostTasks' = IF lost THEN lostTasks \cup {Head(channel[w]).src} ELSE lostTasks
  /\ errs' = errs + 1
  /\ UNCHANGED <<poolSize, tasks, promise, resolveCalls, batches, statVars, chartVars>>

(***************************************************************************)
(* pool.terminate().  worker.terminate() stops each worker where it is:    *)
(* of the requests in a worker's channel, the first keep[w] had been       *)
(* answered already (their replies may still arrive) and the others are    *)
(* lost.                                                                   *)
(***************************************************************************)
Terminate(keep) ==
  /\ LET P1 == TerminateCall(PoolState)
     IN SetPool([P1 EXCEPT !.chan =
                   [w \in Workers |-> SubSeq(channel[w], 1, keep[w])]])
  /\ UNCHANGED <<poolSize, tasks, promise, resolveCalls, batches, errs,
                 lostTasks, statVars, chartVars>>

Keeps == {k \in [Workers -> 0..MaxTasks] : \A w \in Workers : k[w] <= Len(channel[w])}

(***************************************************************************)
(* The parsed results and events the statistics are derived from.  An      *)
(* event is read for its logType, eventFamily, level, message and fields.  *)
(***************************************************************************)
Event(logType, family, level, message, fields) ==
  [logType |-> logType, eventFamily |-> family, level |-> level,
   message |-> message, fields |-> fields]

F1(k, v) == [x \in {k} |-> v]
F2(k1, v1, k2, v2) == [x \in {k1, k2} |-> IF x = k1 THEN v1 ELSE v2]
F3(k1, v1, k2, v2, k3, v3) ==
  [x \in {k1, k2, k3} |-> IF x = k1 THEN v1 ELSE IF x = k2 THEN v2 ELSE v3]

Events ==
  { Event("errors", "exception", "Error", Str("NullReferenceException"), EmptyMap),
    Event("errors", NoFamily, "Error", Str(""), EmptyMap),
    Event("application", "error", "Error", Str("BattlEye error"), EmptyMap),
    Event("application", "anticheat", "Info", Str("BattlEye: init"), EmptyMap),
    Event("application", "error", "Error", Undef, EmptyMap),
    Event("application", "quest", "Info", Undef,
          F2("questId", Str(QuestA), "questStatus", Num(2))),
    Event("application", "matchmaking", "Warn", Str(""), F1("groupId", Str("g1"))),
    Event("application", "quest", "Info", Str("quest 5ac23c6186f7746d5d0c1a9e description"),
          EmptyMap),
    Event("application", "quest", "Info", Undef,
          F3("questId", Str(QuestA), "questStatus", Str("Completed"),
             "questRewardRubles", Num(1000))),
    Event("application", "quest", "Info", Undef,
          F3("questId", Str(QuestA), "questStatus", Str("Failed"),
             "questTraderId", Str("trader2"))),
    Event("application", "quest", "Info", Undef,
          F2("questId", Str(QuestA), "questStatus", Str("Started"))),
    Event("application", "quest", "Warning", Undef,
          F3("questId", Str(QuestA), "questRewardRubles", Num(-500),
             "questTraderId", Str("trader1"))),
    Event("application", "quest", "Info", Undef,
          F3("questId", Str(QuestB),
             "questRewardItemsCounts", [t |-> "object", v |-> F1("tpl1", 2)],
             "questRewardItems", [t |-> "array", v |-> <<"tpl1", "tpl2">>])),
    Event("application", "quest", "Info", Undef,
          F2("questId", Str(QuestB),
             "questRewardItemsCounts", [t |-> "object", v |-> F1("tpl1", -3)])),
    Event("backend", "request", "Info", Str(""), F1("url", Str("/a"))),
    Event("backend", "response", "Info", Str(""),
          F2("url", Str("/a"), "responseCode", Num(200))),
    Event("backend", "response", "Info", Str(""),
          F2("url", Str("/b"), "responseCode", Num(0))),
    Event("backend", "transport_error", "Error", Str(""), F1("responseCode", Num(500))),
    Event("backendCache", NoFamily, "Info", Str(""), F1("cacheHit", Bool(FALSE))),
    Event("backendCache", NoFamily, "Info", Str(""), EmptyMap),
    Event("inventory", "rejection", "Error", Str(""),
          F3("operationType", Str("Move"), "code", Num(228), "itemId", Str("item1"))),
    Event("network-connection", "connect", "Info", Str(""), F1("address", Str("1.2.3.4:17000"))),
    Event("network-connection", "disconnect", "Info", Str(""), EmptyMap),
    Event("network-connection", "timeout", "Error", Str(""), F1("address", Str("1.2.3.4:17000"))),
    Event("network-connection", "statistics", "Info", Str(""),
          F3("rtt", Num(30), "packetsLost", Num(2), "packetsSent", Num(10))),
    Event("network-connection", "statistics", "Info", Str(""),
          F3("rtt", Num(45), "packetsLost", Num(-1), "packetsReceived", Num(8))),
    Event("network-messages", NoFamily, "Info", Str(""), F2("rpi", Num(5), "lud", Num(8))),
    Event("network-messages", NoFamily, "Info", Str(""), F1("rpi", Num(2))),
    Event("push-notifications", "dropped", "Warn", Str(""), EmptyMap),
    Event("push-notifications", "notification", "Info", Str(""), EmptyMap),
    Event("spatial-audio", "occlusion_error", "Error", Str(""), EmptyMap) }

\* A parsed log file without its events: its path, log type and meta.
File(filePath, logType, meta) ==
  [filePath |-> filePath, logType |-> logType, events |-> <<>>, meta |-> meta]

LogTypes ==
  {"errors", "application", "backend", "backendCache", "inventory",
   "network-connection", "network-messages", "push-notifications", "spatial-audio"}

Files ==
  { File(Undef, lt, F3("sessionPrefix", Str("log_2025.01.15_14-30-00"),
                       "earliestTimestamp", Ts(2), "latestTimestamp", Ts(3))) :
      lt \in LogTypes }
  \cup
  { File(Str("C:\\Logs\\log_2025.02.01_09-00-00_1.0\\backend.log"), "backend",
         F2("earliestTimestamp", Ts(1), "latestTimestamp", Ts(3))),
    File(Str("log_2025.01.15_14-30-00/errors.log"), "errors",
         F2("earliestTimestamp", Ts(1), "latestTimestamp", Ts(4))),
    File(Str("errors.log"), "errors", EmptyMap) }

MaxEvents == 2

EventCount(rs) ==
  LET RECURSIVE Count(_)
      Count(q) == IF q = <<>> THEN 0 ELSE Len(Head(q).events) + Count(Tail(q))
  IN Count(rs)

InitStat ==
  /\ results = <<>>
  /\ stats = [k \in DOMAIN ZeroAggregates \cup {"sessions"} |->
                IF k = "sessions" THEN <<>> ELSE ZeroAggregates[k]]

(***************************************************************************)
(* One more event is parsed, in the file parsed last or in another file,   *)
(* and deriveStatistics is called on the results.                          *)
(***************************************************************************)
AddEvent(f, e) ==
  /\ EventCount(results) < MaxEvents
  /\ f.logType = e.logType
  /\ LET last == Len(results)
         same == last > 0 /\ [results[last] EXCEPT !.events = <<>>] = f
     IN results' = IF same THEN [results EXCEPT ![last].events = Append(@, e)]
                   ELSE Append(results, [f EXCEPT !.events = <<e>>])
  /\ stats' = DeriveStatistics(results')
  /\ UNCHANGED <<poolVars, chartVars, hookVars>>

(***************************************************************************)
(* downsampleData (selectors.ts:404-457).  Indices are those of the code,  *)
(* from 0; Math.floor(k * bucketSize) is the floor of k(n-2)/(maxPoints-2) *)
(* (exact in floating point for the lengths met here).                     *)
(***************************************************************************)
MaxData == 5
MaxPoints == 4

Points == {[x |-> 0, y |-> 0], [x |-> 0, y |-> 2], [x |-> 1, y |-> 1], [x |-> 2, y |-> 0]}

\* Math.floor(k * bucketSize) + 1
RangeAt(k, n, m) == ((k * (n - 2)) \div (m - 2)) + 1

Min(a, b) == IF a < b THEN a ELSE b

RECURSIVE SumOf(_, _, _, _)
SumOf(d, c, from, to) ==
  IF from >= to THEN 0 ELSE d[from + 1][c] + SumOf(d, c, from + 1, to)

\* area, times avgRangeLength
AreaOf(d, prev, j, sumX, sumY, len) ==
  Abs((prev.x * len - sumX) * (d[j + 1].y - prev.y)
        - (prev.x - d[j + 1].x) * (sumY - prev.y * len))

\* the index of the point of bucket i that makes the largest triangle: the
\* first one of the largest area
MaxAreaPoint(d, m, i, prevIdx) ==
  LET n == Len(d)
      avgRangeStart == RangeAt(i + 1, n, m)
      avgRangeEnd == Min(RangeAt(i + 2, n, m), n)
      len == avgRangeEnd - avgRangeStart
      sumX == SumOf(d, "x", avgRangeStart, avgRangeEnd)
      sumY == SumOf(d, "y", avgRangeStart, avgRangeEnd)
      rangeStart == RangeAt(i, n, m)
      rangeEnd == RangeAt(i + 1, n, m)
      area(j) == AreaOf(d, d[prevIdx + 1], j, sumX, sumY, len)
      best == {j \in rangeStart..(rangeEnd - 1) :
                 \A k \in rangeStart..(rangeEnd - 1) : area(k) <= area(j)}
  IN IF best = {} THEN rangeStart
     ELSE CHOOSE j \in best : \A k \in best : j <= k

\* result after the loop has run for buckets i .. maxPoints - 3
RECURSIVE Buckets(_, _, _, _)
Buckets(d, m, i, result) ==
  IF i >= m - 2 THEN result
  ELSE Buckets(d, m, i + 1, Append(result, MaxAreaPoint(d, m, i, result[Len(result)])))

\* A mutant: the last point is not pushed.
DownsampleIndicesNoLast(d, m) ==
  IF Len(d) <= m THEN [i \in 1..Len(d) |-> i - 1]
  ELSE Buckets(d, m, 0, <<0>>)

\* the indices in data of the points downsampleData returns
DownsampleIndices(d, m) ==
  IF Len(d) <= m THEN [i \in 1..Len(d) |-> i - 1]
  ELSE Append(Buckets(d, m, 0, <<0>>), Len(d) - 1)

DownsampleData(d, m) ==
  LET idx == DownsampleIndices(d, m) IN [i \in 1..Len(idx) |-> d[idx[i] + 1]]

NotSampled == [called |-> FALSE]

InitChart ==
  /\ data = <<>>
  /\ maxPoints = 0
  /\ sampled = NotSampled

\* the chart's data gets one more point
AddPoint(p) ==
  /\ ~sampled.called
  /\ Len(data) < MaxData
  /\ data' = Append(data, p)
  /\ UNCHANGED <<maxPoints, sampled, poolVars, statVars, hookVars>>

\* the chart is to show one more point
MorePoints ==
  /\ ~sampled.called
  /\ maxPoints < MaxPoints
  /\ maxPoints' = maxPoints + 1
  /\ UNCHANGED <<data, sampled, poolVars, statVars, hookVars>>

Downsample ==
  /\ ~sampled.called
  /\ sampled' = [called |-> TRUE, idx |-> DownsampleIndices(data, maxPoints),
                 out |-> DownsampleData(data, maxPoints)]
  /\ UNCHANGED <<data, maxPoints, poolVars, statVars, hookVars>>

(***************************************************************************)
(* useLogImport.  A parsed result is named by the file it was parsed from; *)
(* insights and statistics are named by the result list they were computed *)
(* from.  A null errorMessage is "null".                                   *)
(***************************************************************************)
MaxFiles == 2
MaxImports == 2

\* the files a user can select: name, place of the name in localeCompare
\* order, and whether parseText throws on the content
Selectable ==
  { [name |-> "a.log", rank |-> 1, bad |-> FALSE],
    [name |-> "b.log", rank |-> 2, bad |-> TRUE],
    [name |-> "c.log", rank |-> 3, bad |-> FALSE],
    [name |-> "notes.txt", rank |-> 4, bad |-> FALSE] }

Selections ==
  {sel \in UNION {[1..n -> Selectable] : n \in 0..MaxFiles} :
     \A i, j \in 1..Len(sel) : sel[i] = sel[j] => i = j}

\* isLogFile(file.name)
IsLogFile(f) == f.name \in {"a.log", "b.log", "c.log"}

\* filterLogFiles(files)
FilterLogFiles(files) == SelectSeq(files, IsLogFile)

\* sortFilesByPath(files): a stable sort by name
RECURSIVE SortFilesByPath(_)
SortFilesByPath(files) ==
  IF files = <<>> THEN <<>>
  ELSE LET first == CHOOSE i \in 1..Len(files) :
                      \A j \in 1..Len(files) :
                        \/ files[i].rank < files[j].rank
                        \/ (files[i].rank = files[j].rank /\ i <= j)
       IN <<files[first]>> \o
          SortFilesByPath([k \in 1..(Len(files) - 1) |->
                             IF k < first THEN files[k] ELSE files[k + 1]])

initialProgress == [status |-> "idle", filesProcessed |-> 0, filesTotal |-> 0]

NoImport == [phase |-> "none", files |-> <<>>, first |-> 0, batch |-> 0, aborted |-> FALSE,
             reset |-> FALSE]

InFlight == imp.phase \in {"reading", "parsing", "computing"}

\* the hook's state after its useState calls, and after reset()
initialState ==
  [progress |-> initialProgress, parsedResults |-> <<>>, insights |-> Null,
   statistics |-> Null, errorMessage |-> "null"]

InitHook ==
  /\ hook = initialState
  /\ imp = NoImport
  /\ started = 0

\* A mutant: the results in the order the workers completed.
SuccessfulResultsAsCompleted(b, I) ==
  LET Ok(h) == promise'[h].success
      RECURSIVE Names(_)
      Names(hs) == IF hs = <<>> THEN <<>>
                   ELSE <<I.files[Head(hs) - I.first].name>> \o Names(Tail(hs))
  IN Names(SelectSeq(b.order, Ok))

\* parseResults.filter(r => r.success && !!r.result).map(r => r.result) on
\* what parseAll returned for batch b of import I
SuccessfulResults(b, I) ==
  LET Ok(r) == r.success
      RECURSIVE Names(_)
      Names(rs) == IF rs = <<>> THEN <<>>
                   ELSE <<I.files[Head(rs).src - I.first].name>> \o Names(Tail(rs))
  IN Names(SelectSeq(b.results, Ok))

\* importFiles(files), up to the first await (useLogImport.ts:584-630)
ImportFiles(sel) ==
  /\ ~InFlight
  /\ started < MaxImports
  /\ Len(tasks) + Len(FilterLogFiles(sel)) <= MaxTasks
  /\ started' = started + 1
  /\ LET logFiles == FilterLogFiles(sel)
         sortedFiles == SortFilesByPath(logFiles)
     IN IF Len(logFiles) = 0
          THEN /\ hook' = [hook EXCEPT !.errorMessage = "No .log files found in the selection"]
               /\ imp' = [NoImport EXCEPT !.phase = "returned"]
          ELSE /\ hook' = [hook EXCEPT
                             !.errorMessage = "null",
                             !.progress = [status |-> "reading", filesProcessed |-> 0,
                                           filesTotal |-> Len(sortedFiles)]]
               /\ imp' = [NoImport EXCEPT !.phase = "reading", !.files = sortedFiles]
  /\ UNCHANGED <<poolVars, statVars, chartVars>>

\* the catch block of importFiles (useLogImport.ts:763-773)
CatchError(message) ==
  /\ hook' = [hook EXCEPT !.errorMessage = message, !.progress.status = "error"]
  /\ imp' = [imp EXCEPT !.phase = "error"]

\* readFilesWithProgress settled: with ok, the files were read and
\* importFiles goes on to parseAll (useLogImport.ts:644-672); without, a
\* file.text() rejected.
ReadFiles(ok) ==
  /\ imp.phase = "reading"
  /\ IF ok
       THEN /\ ParseAll([i \in 1..Len(imp.files) |-> [id |-> i, bad |-> imp.files[i].bad]])
            /\ hook' = [hook EXCEPT !.progress.status = "parsing",
                                    !.progress.filesProcessed = 0]
            /\ imp' = [imp EXCEPT !.phase = "parsing", !.first = Len(tasks),
                                  !.batch = Len(batches) + 1]
            /\ UNCHANGED started
       ELSE /\ CatchError("read error")
            /\ UNCHANGED <<poolVars, statVars, chartVars, started>>

\* worker.onmessage with what it starts in importFiles: the onProgress
\* callback of the task that settled and, when parseAll returned, the code
\* up to the next await (useLogImport.ts:660-712)
HookOnMessage(w) ==
  /\ OnMessage(w)
  /\ LET h == taskMap[Head(channel[w]).id]
         mine == /\ h # 0
                 /\ promise[h].state = "pending"
                 /\ imp.phase = "parsing"
                 /\ tasks[h].batch = imp.batch
     IN IF ~mine THEN UNCHANGED hookVars
        ELSE LET b == batches'[imp.batch]
                 successfulResults == SuccessfulResults(b, imp)
                 p1 == [hook.progress EXCEPT !.status = "parsing",
                                             !.filesProcessed = Len(b.order)]
             IN /\ UNCHANGED started
                /\ IF b.results = <<>>
                     THEN /\ hook' = [hook EXCEPT !.progress = p1]
                          /\ UNCHANGED imp
                     ELSE /\ hook' = [hook EXCEPT
                                        !.parsedResults = successfulResults,
                                        !.progress =
                                           [p1 EXCEPT !.status =
                                              IF successfulResults # <<>> THEN "computing"
                                              ELSE "complete"]]
                          /\ imp' = [imp EXCEPT !.phase =
                                       IF successfulResults # <<>> THEN "computing"
                                       ELSE "complete"]

\* insightsEngine.compute() settled, with no enrichment provider: with ok,
\* insights and statistics are set and the import is complete
\* (useLogImport.ts:743-762); without, compute() or deriveStatistics threw.
Compute(ok) ==
  /\ imp.phase = "computing"
  /\ IF ok
       THEN /\ hook' = [hook EXCEPT !.insights = [from |-> hook.parsedResults],
                                    !.statistics = [from |-> hook.parsedResults],
                                    !.progress.status = "complete"]
            /\ imp' = [imp EXCEPT !.phase = "complete"]
       ELSE CatchError("compute error")
  /\ UNCHANGED <<poolVars, statVars, chartVars, started>>

\* the cleanup of the effect on [gameDataSource] (useLogImport.ts:545-551):
\* abortControllerRef.current is never assigned, so nothing is aborted.
\* imp.aborted records that the cleanup ran while the import was in flight.
Cleanup ==
  /\ InFlight
  /\ ~imp.aborted
  /\ imp' = [imp EXCEPT !.aborted = TRUE]
  /\ UNCHANGED <<hook, started, poolVars, statVars, chartVars>>

(***************************************************************************)
(* enrichInsights and enrichStatistics.  A provider is a BulkTrackerProvider*)
(* with its own copy of the game data: loadAll either failed, and then     *)
(* every lookup throws, or filled the tables, and then a lookup returns    *)
(* the entry of the id or null.  What a provider returns carries the       *)
(* provider's place in the list.                                           *)
(***************************************************************************)
MaxProviders == 2

Q1 == "q1"
T1 == "t1"
I1 == "i1"

\* the outcome of an awaited call that rejected
Throw == [t |-> "throw"]
Named(s, source) == [t |-> "string", v |-> s, source |-> source]

\* the ids the tables of a loaded provider can hold
Catalogues == {{}, {Q1}, {T1, I1}, {Q1, T1, I1}}

ProviderSet(source) ==
  {[source |-> source, loaded |-> FALSE, has |-> {}]}
  \cup {[source |-> source, loaded |-> TRUE, has |-> c] : c \in Catalogues}

ProviderLists ==
  {ps \in UNION {[1..n -> UNION {ProviderSet(s) : s \in 1..MaxProviders}] :
                   n \in 1..MaxProviders} :
     \A i \in 1..Len(ps) : ps[i].source = i}

\* p.getQuestById(id), p.getTraderById(id), p.getItemById(id)
GetById(p, kind, id) ==
  IF ~p.loaded THEN Throw
  ELSE IF id \notin p.has THEN Null
  ELSE CASE kind = "quest" ->
              [t |-> "object", id |-> id, name |-> Named("quest", p.source),
               traderId |-> Str(T1)]
         [] kind = "trader" ->
              [t |-> "object", id |-> id, name |-> Named("trader", p.source),
               nickname |-> Named("nick", p.source)]
         [] kind = "item" ->
              [t |-> "object", id |-> id, name |-> Named("item", p.source),
               shortName |-> Named("short", p.source)]

\* A mutant: firstAvailable without its try/catch.
RECURSIVE FirstAvailableNoCatch(_, _, _)
FirstAvailableNoCatch(ps, kind, id) ==
  IF ps = <<>> THEN [res |-> Null, calls |-> <<>>]
  ELSE LET res == GetById(Head(ps), kind, id)
           call == <<<<kind, id, Head(ps).source>>>>
       IN IF res = Throw THEN [res |-> Throw, calls |-> call]
          ELSE IF Truthy(res) THEN [res |-> res, calls |-> call]
          ELSE LET rest == FirstAvailableNoCatch(Tail(ps), kind, id)
               IN [res |-> rest.res, calls |-> call \o rest.calls]

\* firstAvailable(p => p.get<Kind>ById(id)) over the providers ps: what it
\* returns and the calls it made
RECURSIVE FirstAvailable(_, _, _)
FirstAvailable(ps, kind, id) ==
  IF ps = <<>> THEN [res |-> Null, calls |-> <<>>]
  ELSE LET res == GetById(Head(ps), kind, id)
           call == <<<<kind, id, Head(ps).source>>>>
       IN IF res # Throw /\ Truthy(res) THEN [res |-> res, calls |-> call]
          ELSE LET rest == FirstAvailable(Tail(ps), kind, id)
               IN [res |-> rest.res, calls |-> call \o rest.calls]

\* the quests and traders of the insights handed to enrichInsights
QuestStubs ==
  {[id |-> Q1, name |-> n, traderId |-> t, traderName |-> Undef] :
     n \in {Undef, Str("known quest")}, t \in {Undef, Str(T1)}}

KnownTrader == [kind |-> "trader", id |-> T1, name |-> Str("known trader")]

InsightsInputs ==
  {[quests |-> qs, traders |-> ts] :
     qs \in {<<>>} \cup {<<q>> : q \in QuestStubs},
     ts \in {EmptyMap, [k \in {T1} |-> KnownTrader]}}

\* the items and traders of the statistics handed to enrichStatistics
StatisticsInputs ==
  {[items |-> is, traders |-> ts] :
     is \in {EmptyMap, UpsertResolved(EmptyMap, I1, "item")},
     ts \in {EmptyMap, UpsertResolved(EmptyMap, T1, "trader")}}

NotEnriched == [op |-> "none"]

InitEnrich ==
  /\ providers = <<>>
  /\ questCache = EmptyMap
  /\ traderCache = EmptyMap
  /\ itemCache = EmptyMap
  /\ enriched = NotEnriched

\* resolveGameDataProviders(effectiveSource) in an importFiles call that
\* reached its computing phase
ResolveGameDataProviders(ps) ==
  /\ providers = <<>>
  /\ providers' = ps
  /\ enriched' = NotEnriched
  /\ UNCHANGED <<questCache, traderCache, itemCache, poolVars, statVars, chartVars, hookVars, overlapVars>>

\* the callback of insights.quests.map in enrichInsights, on one quest
EnrichQuest(quest, ps, cache) ==
  IF quest.id \in DOMAIN cache
    THEN [quest |-> [quest EXCEPT
                       !.name = Coalesce(@, cache[quest.id].name),
                       !.traderId = Coalesce(@, cache[quest.id].traderId),
                       !.traderName = Coalesce(@, Undef)],
          cache |-> cache, calls |-> <<>>, thrown |-> FALSE]
    ELSE LET r == FirstAvailable(ps, "quest", quest.id)
         IN IF r.res = Throw
              THEN [quest |-> quest, cache |-> cache, calls |-> r.calls, thrown |-> TRUE]
            ELSE IF ~Truthy(r.res)
              THEN [quest |-> quest, cache |-> cache, calls |-> r.calls, thrown |-> FALSE]
            ELSE [quest |-> [quest EXCEPT
                               !.name = Coalesce(@, r.res.name),
                               !.traderId = Coalesce(@, r.res.traderId),
                               !.traderName = Coalesce(@, r.res.name)],
                  cache |-> Put(cache, quest.id,
                                [name |-> r.res.name, traderId |-> r.res.traderId]),
                  calls |-> r.calls, thrown |-> FALSE]

\* one round of the trader loop of enrichInsights (overwrite = FALSE: an
\* entry that exists is left alone) and of enrichStatistics (overwrite =
\* TRUE: every key is looked up)
EnrichTrader(traders, id, ps, cache, overwrite) ==
  IF ~overwrite /\ id \in DOMAIN traders
    THEN [traders |-> traders, cache |-> cache, calls |-> <<>>, thrown |-> FALSE]
  ELSE IF id \in DOMAIN cache
    THEN [traders |-> Put(traders, id,
                          [kind |-> "trader", id |-> cache[id].id,
                           name |-> Coalesce(cache[id].name, cache[id].nickname)]),
          cache |-> cache, calls |-> <<>>, thrown |-> FALSE]
  ELSE LET r == FirstAvailable(ps, "trader", id)
       IN IF r.res = Throw
            THEN [traders |-> traders, cache |-> cache, calls |-> r.calls, thrown |-> TRUE]
          ELSE IF ~Truthy(r.res)
            THEN [traders |-> traders, cache |-> cache, calls |-> r.calls, thrown |-> FALSE]
          ELSE [traders |-> Put(traders, id,
                                [kind |-> "trader", id |-> r.res.id,
                                 name |-> Coalesce(r.res.name, r.res.nickname)]),
                cache |-> Put(cache, id, [id |-> r.res.id, name |-> r.res.name,
                                          nickname |-> r.res.nickname]),
                calls |-> r.calls, thrown |-> FALSE]

\* one round of the item loop of enrichStatistics
EnrichItem(items, id, ps, cache) ==
  IF id \in DOMAIN cache
    THEN [items |-> Put(items, id,
                        [id |-> id, kind |-> "item",
                         name |-> Coalesce(cache[id].name, cache[id].shortName)]),
          cache |-> cache, calls |-> <<>>, thrown |-> FALSE]
  ELSE LET r == FirstAvailable(ps, "item", id)
       IN IF r.res = Throw
            THEN [items |-> items, cache |-> cache, calls |-> r.calls, thrown |-> TRUE]
          ELSE IF ~Truthy(r.res)
            THEN [items |-> items, cache |-> cache, calls |-> r.calls, thrown |-> FALSE]
          ELSE [items |-> Put(items, id,
                              [id |-> r.res.id, kind |-> "item",
                               name |-> Coalesce(r.res.name, r.res.shortName)]),
                cache |-> Put(cache, id, [id |-> r.res.id, name |-> r.res.name,
                                          shortName |-> r.res.shortName]),
                calls |-> r.calls, thrown |-> FALSE]

\* computedInsights = await enrichInsights(computedInsights, providers,
\* questCacheRef, traderCacheRef), called when providers.length > 0.  The
\* insights of the model hold at most one quest, and its trader is T1.
EnrichInsights(insights) ==
  /\ Len(providers) > 0
  /\ enriched.op = "none"
  /\ LET none == [quest |-> Undef, cache |-> questCache, calls |-> <<>>, thrown |-> FALSE]
         q == IF insights.quests = <<>> THEN none
              ELSE EnrichQuest(insights.quests[1], providers, questCache)
         quests == IF insights.quests = <<>> THEN <<>> ELSE <<q.quest>>
         traderIds == {KeyOf(quests[i].traderId) :
                         i \in {j \in 1..Len(quests) : Truthy(quests[j].traderId)}}
         t == IF q.thrown \/ T1 \notin traderIds
                THEN [traders |-> insights.traders, cache |-> traderCache,
                      calls |-> <<>>, thrown |-> FALSE]
                ELSE EnrichTrader(insights.traders, T1, providers, traderCache, FALSE)
         thrown == q.thrown \/ t.thrown
     IN /\ questCache' = q.cache
        /\ traderCache' = t.cache
        /\ enriched' = [op |-> "insights", input |-> insights, thrown |-> thrown,
                        output |-> IF thrown THEN Throw
                                   ELSE [quests |-> quests, traders |-> t.traders],
                        calls |-> q.calls \o t.calls,
                        questCache |-> questCache, traderCache |-> traderCache,
                        itemCache |-> itemCache]
  /\ UNCHANGED <<providers, itemCache, poolVars, statVars, chartVars, hookVars, overlapVars>>

\* computedStatistics = await enrichStatistics(computedStatistics, providers,
\* itemCacheRef, traderCacheRef, locationCacheRef), called when
\* providers.length > 0.  The statistics of the model hold at most the item
\* I1 and the trader T1.
EnrichStatistics(statistics) ==
  /\ Len(providers) > 0
  /\ enriched.op = "insights"
  /\ ~enriched.thrown
  /\ LET i == IF I1 \in DOMAIN statistics.items
                THEN EnrichItem(statistics.items, I1, providers, itemCache)
                ELSE [items |-> statistics.items, cache |-> itemCache,
                      calls |-> <<>>, thrown |-> FALSE]
         t == IF ~i.thrown /\ T1 \in DOMAIN statistics.traders
                THEN EnrichTrader(statistics.traders, T1, providers, traderCache, TRUE)
                ELSE [traders |-> statistics.traders, cache |-> traderCache,
                      calls |-> <<>>, thrown |-> FALSE]
         thrown == i.thrown \/ t.thrown
     IN /\ itemCache' = i.cache
        /\ traderCache' = t.cache
        /\ enriched' = [op |-> "statistics", input |-> statistics, thrown |-> thrown,
                        output |-> IF thrown THEN Throw
                                   ELSE [items |-> i.items, traders |-> t.traders],
                        calls |-> i.calls \o t.calls,
                        questCache |-> questCache, traderCache |-> traderCache,
                        itemCache |-> itemCache]
  /\ UNCHANGED <<providers, questCache, poolVars, statVars, chartVars, hookVars, overlapVars>>

\* importFiles returns, after enrichStatistics or through its catch block:
\* its providers go out of scope, the caches stay
ImportReturns ==
  /\ enriched.op # "none"
  /\ enriched.op = "statistics" \/ enriched.thrown
  /\ providers' = <<>>
  /\ enriched' = NotEnriched
  /\ UNCHANGED <<questCache, traderCache, itemCache, poolVars, statVars, chartVars, hookVars, overlapVars>>

\* reset() (useLogImport.ts:553-559).  imp.reset records that it ran after
\* the importFiles call that ran last was started.
Reset ==
  /\ hook' = initialState
  /\ imp' = [imp EXCEPT !.reset = TRUE]
  /\ UNCHANGED <<started, poolVars, statVars, chartVars>>

(***************************************************************************)
(* importFiles calls that overlap: a call may be started while earlier     *)
(* ones are in flight.  Every call names its tasks file-0, file-1, ...     *)
(* (the ids 1, 2, ... here) and shares the pool and the hook's state.      *)
(***************************************************************************)
NoCall ==
  [phase |-> "none", files |-> <<>>, first |-> 0, batch |-> 0,
   successfulResults |-> <<>>, overlapped |-> FALSE]

InitOverlap == imports = <<>>

Running(I) == I.phase \in {"reading", "parsing", "computing"}

\* the file whose content the task h carried
FileOfTask(h) ==
  LET k == CHOOSE k \in 1..Len(imports) :
             /\ imports[k].batch # 0
             /\ imports[k].first < h
             /\ h <= imports[k].first + Len(imports[k].files)
  IN imports[k].files[h - imports[k].first]

\* parseResults.filter(r => r.success && !!r.result).map(r => r.result) on
\* what parseAll returned for batch b
SuccessfulResultsOf(b) ==
  LET Ok(r) == r.success
      RECURSIVE Names(_)
      Names(rs) == IF rs = <<>> THEN <<>>
                   ELSE <<FileOfTask(Head(rs).src).name>> \o Names(Tail(rs))
  IN Names(SelectSeq(b.results, Ok))

\* importFiles(files), up to the first await (useLogImport.ts:584-630)
ImportFilesOverlapping(sel) ==
  /\ Len(imports) < MaxImports
  /\ Len(tasks) + Len(FilterLogFiles(sel)) <= MaxTasks
  /\ LET logFiles == FilterLogFiles(sel)
         sortedFiles == SortFilesByPath(logFiles)
         over == \E k \in 1..Len(imports) : Running(imports[k])
     IN IF Len(logFiles) = 0
          THEN /\ hook' = [hook EXCEPT !.errorMessage = "No .log files found in the selection"]
               /\ imports' = Append(imports, [NoCall EXCEPT !.phase = "returned",
                                                            !.overlapped = over])
          ELSE /\ hook' = [hook EXCEPT
                             !.errorMessage = "null",
                             !.progress = [status |-> "reading", filesProcessed |-> 0,
                                           filesTotal |-> Len(sortedFiles)]]
               /\ imports' = Append(imports, [NoCall EXCEPT !.phase = "reading",
                                                            !.files = sortedFiles,
                                                            !.overlapped = over])
  /\ UNCHANGED <<imp, started, poolVars, statVars, chartVars, enrichVars>>

\* the catch block of importFiles (useLogImport.ts:763-773) in the call k
CatchErrorOf(k, message) ==
  /\ hook' = [hook EXCEPT !.errorMessage = message, !.progress.status = "error"]
  /\ imports' = [imports EXCEPT ![k].phase = "error"]

\* readFilesWithProgress of the call k settled (useLogImport.ts:630-672)
ReadFilesOf(k, ok) ==
  /\ k \in 1..Len(imports)
  /\ imports[k].phase = "reading"
  /\ IF ok
       THEN /\ ParseAll([i \in 1..Len(imports[k].files) |->
                           [id |-> i, bad |-> imports[k].files[i].bad]])
            /\ hook' = [hook EXCEPT !.progress.status = "parsing",
                                    !.progress.filesProcessed = 0]
            /\ imports' = [imports EXCEPT ![k].phase = "parsing",
                                          ![k].first = Len(tasks),
                                          ![k].batch = Len(batches) + 1]
       ELSE /\ CatchErrorOf(k, "read error")
            /\ UNCHANGED <<poolVars, statVars, chartVars>>
  /\ UNCHANGED <<imp, started, enrichVars>>

\* worker.onmessage with what it starts in the importFiles call whose task
\* settled: the onProgress callback and, when that call's parseAll
\* returned, the code up to the next await (useLogImport.ts:660-712)
OnMessageOf(w) ==
  /\ OnMessage(w)
  /\ LET h == taskMap[Head(channel[w]).id]
         settles == h # 0 /\ promise[h].state = "pending"
         owners == IF settles
                     THEN {k \in 1..Len(imports) : /\ imports[k].phase = "parsing"
                                                   /\ imports[k].batch = tasks[h].batch}
                     ELSE {}
     IN IF owners = {} THEN UNCHANGED <<hook, imports>>
        ELSE LET k == CHOOSE x \in owners : TRUE
                 b == batches'[imports[k].batch]
                 successfulResults == SuccessfulResultsOf(b)
                 p1 == [hook.progress EXCEPT !.status = "parsing",
                                             !.filesProcessed = Len(b.order)]
             IN IF b.results = <<>>
                  THEN /\ hook' = [hook EXCEPT !.progress = p1]
                       /\ UNCHANGED imports
                  ELSE /\ hook' = [hook EXCEPT
                                     !.parsedResults = successfulResults,
                                     !.progress =
                                        [p1 EXCEPT !.status =
                                           IF successfulResults # <<>> THEN "computing"
                                           ELSE "complete"]]
                       /\ imports' = [imports EXCEPT
                                        ![k].successfulResults = successfulResults,
                                        ![k].phase =
                                           IF successfulResults # <<>> THEN "computing"
                                           ELSE "complete"]
  /\ UNCHANGED <<imp, started, enrichVars>>

\* insightsEngine.compute() of the call k settled, with no enrichment
\* provider (useLogImport.ts:743-762): insights and statistics are computed
\* from the call's own successfulResults
ComputeOf(k, ok) ==
  /\ k \in 1..Len(imports)
  /\ imports[k].phase = "computing"
  /\ IF ok
       THEN /\ hook' = [hook EXCEPT
                          !.insights = [from |-> imports[k].successfulResults],
                          !.statistics = [from |-> imports[k].successfulResults],
                          !.progress.status = "complete"]
            /\ imports' = [imports EXCEPT ![k].phase = "complete"]
       ELSE CatchErrorOf(k, "compute error")
  /\ UNCHANGED <<imp, started, poolVars, statVars, chartVars, enrichVars>>

Init == InitPool /\ InitStat /\ InitChart /\ InitHook /\ InitEnrich /\ InitOverlap

(***************************************************************************)
(* The pool, with every event its environment can raise.                   *)
(***************************************************************************)
Next ==
  \/ \E n \in 1..MaxTasks : \E ts \in NewTaskSeqs(n, TRUE) :
       ParseAll(ts) /\ UNCHANGED <<hookVars, enrichVars, overlapVars>>
  \/ \E w \in Workers : OnMessage(w) /\ UNCHANGED <<hookVars, enrichVars, overlapVars>>
  \/ \E w \in Workers, lost \in BOOLEAN : OnError(w, lost) /\ UNCHANGED <<hookVars, enrichVars, overlapVars>>
  \/ \E keep \in Keeps : Terminate(keep) /\ UNCHANGED <<hookVars, enrichVars, overlapVars>>

Spec == Init /\ [][Next]_vars

(***************************************************************************)
(* The pool while it is not terminated and its workers answer every        *)
(* request.  The event loop delivers every reply in the end.               *)
(***************************************************************************)
NextLive ==
  \/ \E n \in 1..MaxTasks : \E ts \in NewTaskSeqs(n, TRUE) :
       ParseAll(ts) /\ UNCHANGED <<hookVars, enrichVars, overlapVars>>
  \/ \E w \in Workers : OnMessage(w) /\ UNCHANGED <<hookVars, enrichVars, overlapVars>>
  \/ \E w \in Workers : OnError(w, FALSE) /\ UNCHANGED <<hookVars, enrichVars, overlapVars>>

(***************************************************************************)
(* The pool with every event, and with room for MaxLoad - poolSize tasks:  *)
(* the smaller the pool, the longer its queue grows.                       *)
(***************************************************************************)
NextLoad ==
  \/ \E n \in 1..(MaxLoad - 1) : \E ts \in NewTaskSeqs(n, TRUE) :
       ParseAllWithin(ts, MaxLoad - poolSize) /\ UNCHANGED <<hookVars, enrichVars, overlapVars>>
  \/ \E w \in Workers : OnMessage(w) /\ UNCHANGED <<hookVars, enrichVars, overlapVars>>
  \/ \E w \in Workers, lost \in BOOLEAN : OnError(w, lost) /\ UNCHANGED <<hookVars, enrichVars, overlapVars>>
  \/ \E keep \in Keeps : Terminate(keep) /\ UNCHANGED <<hookVars, enrichVars, overlapVars>>

SpecLoad == Init /\ [][NextLoad]_vars

SpecLive ==
  /\ Init
  /\ [][NextLive]_vars
  /\ \A w \in Workers : WF_vars(OnMessage(w) /\ UNCHANGED <<hookVars, enrichVars, overlapVars>>)

(***************************************************************************)
(* deriveStatistics on every list of parsed results of up to MaxEvents     *)
(* events, beside a pool of one worker that is left alone.                 *)
(***************************************************************************)
NextStat == \E f \in Files, e \in Events : AddEvent(f, e) /\ UNCHANGED <<enrichVars, overlapVars>>

InitOneWorker == Init /\ poolSize = 1

(***************************************************************************)
(* downsampleData on every list of up to MaxData points and every          *)
(* maxPoints up to MaxPoints.                                              *)
(***************************************************************************)
NextChart ==
  \/ \E p \in Points : AddPoint(p) /\ UNCHANGED <<enrichVars, overlapVars>>
  \/ MorePoints /\ UNCHANGED <<enrichVars, overlapVars>>
  \/ Downsample /\ UNCHANGED <<enrichVars, overlapVars>>

SpecChart == InitOneWorker /\ [][NextChart]_vars

(***************************************************************************)
(* The hook: imports one after the other on the shared pool, whose workers *)
(* answer every request.                                                   *)
(***************************************************************************)
NextHook ==
  \/ \E sel \in Selections : ImportFiles(sel) /\ UNCHANGED <<enrichVars, overlapVars>>
  \/ \E ok \in BOOLEAN : ReadFiles(ok) /\ UNCHANGED <<enrichVars, overlapVars>>
  \/ \E w \in Workers : HookOnMessage(w) /\ UNCHANGED <<enrichVars, overlapVars>>
  \/ \E ok \in BOOLEAN : Compute(ok) /\ UNCHANGED <<enrichVars, overlapVars>>
  \/ Cleanup /\ UNCHANGED <<enrichVars, overlapVars>>

SpecHook == Init /\ [][NextHook]_vars

(***************************************************************************)
(* The hook with reset() called at any time.                               *)
(***************************************************************************)
NextReset ==
  \/ \E sel \in Selections : ImportFiles(sel) /\ UNCHANGED <<enrichVars, overlapVars>>
  \/ \E ok \in BOOLEAN : ReadFiles(ok) /\ UNCHANGED <<enrichVars, overlapVars>>
  \/ \E w \in Workers : HookOnMessage(w) /\ UNCHANGED <<enrichVars, overlapVars>>
  \/ \E ok \in BOOLEAN : Compute(ok) /\ UNCHANGED <<enrichVars, overlapVars>>
  \/ Cleanup /\ UNCHANGED <<enrichVars, overlapVars>>
  \/ Reset /\ UNCHANGED <<enrichVars, overlapVars>>

SpecReset == Init /\ [][NextReset]_vars

(***************************************************************************)
(* The hook with importFiles calls that overlap on the shared pool.        *)
(***************************************************************************)
NextOverlap ==
  \/ \E sel \in Selections : ImportFilesOverlapping(sel)
  \/ \E k \in 1..MaxImports, ok \in BOOLEAN : ReadFilesOf(k, ok)
  \/ \E w \in Workers : OnMessageOf(w)
  \/ \E k \in 1..MaxImports, ok \in BOOLEAN : ComputeOf(k, ok)

SpecOverlap == Init /\ [][NextOverlap]_vars

SpecStat == InitOneWorker /\ [][NextStat]_vars

(***************************************************************************)
(* Enrichment: imports that resolve their providers and enrich insights    *)
(* and statistics against the caches the hook keeps across imports.        *)
(***************************************************************************)
NextEnrich ==
  \/ \E ps \in ProviderLists : ResolveGameDataProviders(ps)
  \/ \E insights \in InsightsInputs : EnrichInsights(insights)
  \/ \E statistics \in StatisticsInputs : EnrichStatistics(statistics)
  \/ ImportReturns

SpecEnrich == InitOneWorker /\ [][NextEnrich]_vars

(***************************************************************************)
(* The claims about the pool.                                              *)
(***************************************************************************)
Submitted == 1..Len(tasks)
BadIn(b) == {i \in 1..Len(b.hs) : tasks[b.hs[i]].bad}
FailedIn(b) == {i \in 1..Len(b.results) : ~b.results[i].success}
PoolFields == <<workers, availableWorkers, pendingTasks, taskMap, isTerminated, channel>>

\* C1: a promise returned by parse() is pending or resolved, never rejected,
\* and whenever worker.onmessage handles the reply to a task in flight, that
\* task's promise resolves: with {id, success: false, error} for a reply of
\* type "error", with {id, success: true, result} for one of type "result".
C1_ReplyResolvesPromise ==
  [][\A w \in Workers : OnMessage(w) =>
       LET req == Head(channel[w])
           m == WorkerReply(req, tasks[req.src].bad)
           h == taskMap[m.id]
       IN h # 0 =>
            /\ promise[h].state = "pending"
            /\ m.type = "error" => promise'[h] = Failure(tasks[h].id, "parse error")
            /\ m.type = "result" => promise'[h] = Success(tasks[h].id, h)
            /\ \A g \in Submitted : promise'[g].state \in {"pending", "resolved"}]_vars

C1_Witness ==
  \E g, h \in Submitted :
    /\ promise[g] = Success(tasks[g].id, g)
    /\ promise[h] = Failure(tasks[h].id, "parse error")

\* C2: parseAll has returned only if every one of its tasks has settled, and
\* result i of the array it returned is the result of tasks[i]: it carries
\* that task's id and, when it is a success, that task's parsed content.
C2_ParseAllKeepsInputOrder ==
  \A bi \in 1..Len(batches) :
    LET b == batches[bi] IN
    b.results # <<>> =>
      /\ Len(b.results) = Len(b.hs)
      /\ \A i \in 1..Len(b.hs) :
           /\ promise[b.hs[i]].state = "resolved"
           /\ b.results[i].state = "resolved"
           /\ b.results[i].id = tasks[b.hs[i]].id
           /\ b.results[i].success => b.results[i].src = b.hs[i]

\* parseAll returned after its tasks completed in another order than given.
C2_Witness ==
  \E bi \in 1..Len(batches) :
    /\ batches[bi].results # <<>>
    /\ Len(batches[bi].order) = Len(batches[bi].hs)
    /\ batches[bi].order # batches[bi].hs

\* C3 as stated: whenever parseAll has returned for N tasks of which exactly
\* one fails to parse, it returned N results, exactly one with success: false.
C3_ExactlyOneFailure ==
  \A bi \in 1..Len(batches) :
    LET b == batches[bi] IN
    (b.results # <<>> /\ Cardinality(BadIn(b)) = 1) =>
      /\ Len(b.results) = Len(b.hs)
      /\ Cardinality(FailedIn(b)) = 1

\* C3, amended: the same, for a parseAll call made on a pool that was not
\* terminated, and the one failure is the task that fails to parse.
C3_ExactlyOneFailureOnLivePool ==
  \A bi \in 1..Len(batches) :
    LET b == batches[bi] IN
    (b.live /\ b.results # <<>> /\ Cardinality(BadIn(b)) = 1) =>
      /\ Len(b.results) = Len(b.hs)
      /\ FailedIn(b) = BadIn(b)

C3_Witness ==
  \E bi \in 1..Len(batches) :
    LET b == batches[bi] IN
    /\ b.live
    /\ Len(b.results) >= 2
    /\ Cardinality(BadIn(b)) = 1
    /\ Cardinality(FailedIn(b)) = 1

\* C4: on a pool that is not terminated and whose workers answer every
\* request, every submitted task's promise resolves in the end, no task's
\* resolve function is called twice, and once every submitted task has
\* resolved, getStatus().pendingTasks is 0.
C4_EveryTaskResolvesOnce ==
  /\ [](\A h \in Submitted : resolveCalls[h] <= 1)
  /\ []((\A h \in Submitted : promise[h].state = "resolved")
          => GetStatus.pendingTasks = 0)
  /\ \A h \in Handles :
       (h \in Submitted) ~> (h \in Submitted /\ promise[h].state = "resolved")

\* Every task resolved, one of them after waiting in the queue of a pool of
\* one worker.
C4_Witness ==
  /\ Len(tasks) = MaxTasks
  /\ poolSize = 1
  /\ errs = 0
  /\ \A h \in Submitted : promise[h].state = "resolved" /\ resolveCalls[h] = 1
  /\ GetStatus.pendingTasks = 0

\* C5 as stated: a task whose worker raised a worker-level exception while
\* holding it has a failure result (success: false) once worker.onerror ran.
C5_WorkerExceptionReported ==
  \A h \in lostTasks : promise[h].state = "resolved" /\ ~promise[h].success

\* C6: a parse call on a terminated pool changes no field of the pool and
\* returns a promise already resolved with {id, success: false, error:
\* "Worker pool has been terminated"}.
C6_ParseAfterTerminate ==
  [][(isTerminated /\ Len(tasks') > Len(tasks)) =>
       /\ UNCHANGED PoolFields
       /\ \A h \in (Len(tasks) + 1)..Len(tasks') :
            promise'[h] = Failure(tasks'[h].id, "Worker pool has been terminated")]_vars

C6_Witness ==
  /\ isTerminated
  /\ \E h \in Submitted : promise[h].error = "Worker pool has been terminated"

\* C7: terminate() sets isTerminated, empties pendingTasks and taskMap and
\* releases every worker; a second terminate() right after it would leave
\* the pool as it is; and no promise that is pending on a terminated pool
\* (that of a task queued at the time, in particular) is ever resolved.
C7_Terminate ==
  [][/\ \A keep \in Keeps : Terminate(keep) =>
          /\ isTerminated'
          /\ pendingTasks' = <<>>
          /\ taskMap' = NoMap
          /\ workers' = {}
          /\ availableWorkers' = <<>>
          /\ TerminateCall(PoolState') = PoolState'
     /\ \A h \in Submitted :
          (isTerminated /\ promise[h].state = "pending") => promise'[h].state = "pending"]_vars

\* A terminated pool of one worker, with no error event, and two promises
\* pending: one of the two tasks was queued when terminate() ran.
C7_Witness ==
  /\ isTerminated
  /\ poolSize = 1
  /\ errs = 0
  /\ Cardinality({h \in Submitted : promise[h].state = "pending"}) >= 2

(***************************************************************************)
(* The claims about deriveStatistics.                                      *)
(***************************************************************************)
RECURSIVE AllEvents(_)
AllEvents(rs) == IF rs = <<>> THEN <<>> ELSE Head(rs).events \o AllEvents(Tail(rs))

RECURSIVE SumMap(_)
SumMap(m) ==
  IF DOMAIN m = {} THEN 0
  ELSE LET k == CHOOSE x \in DOMAIN m : TRUE
       IN m[k] + SumMap([x \in DOMAIN m \ {k} |-> m[x]])

Entries(name, sub, m) == {<<<<name, sub, k>>, m[k]>> : k \in DOMAIN m}

\* The event counters of a Statistics, each with its place in the record.
Counters(S) ==
  Entries("backend", "", [k \in {"totalRequests", "totalResponses", "totalErrors", "retries"}
                        |-> S.backend[k]])
  \cup Entries("backend.byStatusCode", "", S.backend.byStatusCode)
  \cup Entries("backend.byEndpoint", "", S.backend.byEndpoint)
  \cup Entries("cache", "", S.cache)
  \cup {<<<<"inventory", "", "totalRejections">>, S.inventory.totalRejections>>}
  \cup Entries("inventory.byOperation", "", S.inventory.byOperation)
  \cup Entries("inventory.byCode", "", S.inventory.byCode)
  \cup Entries("inventory.items", "", S.inventory.items)
  \cup Entries("network", "", [k \in {"connections", "disconnects", "timeouts"} |-> S.network[k]])
  \cup UNION {Entries("network.byAddress", a, S.network.byAddress[a]) :
                a \in DOMAIN S.network.byAddress}
  \cup Entries("network.metrics", "",
               [k \in DOMAIN S.network.metrics \cap {"samples", "rttSamples"}
                  |-> S.network.metrics[k]])
  \cup Entries("push", "", S.push)
  \cup Entries("audio", "", S.audio)
  \cup {<<<<"errors", "", "totals">>, S.errors.totals>>}
  \cup Entries("errors.byFamily", "", S.errors.byFamily)
  \cup Entries("anticheat", "", [k \in {"initLines", "errors"} |-> S.anticheat[k]])
  \cup UNION {Entries("sessions", S.sessions[i].id, S.sessions[i].totals) :
                i \in 1..Len(S.sessions)}

\* The sums of field values of a Statistics.
Sums(S) ==
  Entries("network.metrics", "",
          [k \in DOMAIN S.network.metrics
                   \cap {"totalPacketsLost", "totalPacketsSent", "totalPacketsReceived"}
             |-> S.network.metrics[k]])
  \cup {<<<<"quests", S.quests[i].id, "rewardRubles">>, S.quests[i].rewardRubles.v>> :
          i \in {j \in 1..Len(S.quests) : S.quests[j].rewardRubles.t = "number"}}
  \cup UNION {Entries("quests.rewardItems", S.quests[i].id, S.quests[i].rewardItems.v) :
                i \in {j \in 1..Len(S.quests) : S.quests[j].rewardItems.t = "object"}}

NonNegative(cs) == \A c \in cs : c[2] >= 0
NotDecreased(cs, ds) == \A c \in cs : \E d \in ds : d[1] = c[1] /\ d[2] >= c[2]

\* The values deriveStatistics sums are all >= 0.
SummedValuesNonNegative(rs) ==
  \A i \in 1..Len(AllEvents(rs)) :
    LET e == AllEvents(rs)[i] IN
    /\ \A k \in {"packetsLost", "packetsSent", "packetsReceived", "questRewardRubles"} :
         FieldOf(e, k).t = "number" => FieldOf(e, k).v >= 0
    /\ FieldOf(e, "questRewardItemsCounts").t = "object" =>
         \A k \in DOMAIN FieldOf(e, "questRewardItemsCounts").v :
           FieldOf(e, "questRewardItemsCounts").v[k] >= 0

\* C9: errors.totals is the number of events whose logType is "errors" (an
\* event of another log at level "Error" adds nothing), and the counts of
\* errors.byFamily add up to it.
C9_ErrorsFromErrorsLogOnly ==
  LET es == AllEvents(results) IN
  ~stats.thrown =>
  /\ stats.errors.totals = Cardinality({i \in 1..Len(es) : es[i].logType = "errors"})
  /\ SumMap(stats.errors.byFamily) = stats.errors.totals

C9_Witness ==
  LET es == AllEvents(results) IN
  /\ ~stats.thrown
  /\ stats.errors.totals >= 1
  /\ \E i \in 1..Len(es) : es[i].logType = "application" /\ es[i].level = "Error"

\* C10 as stated: after a fold every number deriveStatistics counts or sums
\* is >= 0, and folding the same events followed by one more decreases none.
C10_AllNumbersMonotone ==
  [][results' # results =>
       /\ NonNegative(Counters(stats') \cup Sums(stats'))
       /\ NotDecreased(Counters(stats) \cup Sums(stats),
                       Counters(stats') \cup Sums(stats'))]_vars

\* C10, amended: that holds of every event counter; it holds of the sums of
\* field values (totalPacketsLost, totalPacketsSent, totalPacketsReceived,
\* rewardRubles, rewardItems) when none of the values summed is negative.
C10_CountersMonotone ==
  [][results' # results =>
       /\ NonNegative(Counters(stats'))
       /\ NotDecreased(Counters(stats), Counters(stats'))
       /\ SummedValuesNonNegative(results') =>
            /\ NonNegative(Sums(stats'))
            /\ NotDecreased(Sums(stats), Sums(stats'))]_vars

\* Two events folded, a counter at 2 and a sum above 0.
C10_Witness ==
  /\ ~stats.thrown
  /\ EventCount(results) = MaxEvents
  /\ SummedValuesNonNegative(results)
  /\ \E c \in Counters(stats) : c[2] >= 2
  /\ \E c \in Sums(stats) : c[2] > 0

\* C11 as stated: deriveStatistics returns for every list of results, those
\* with an event whose message is missing or whose questStatus is no string
\* included; it never ends in an exception.
C11_NeverThrows == ~stats.thrown

ResultsOf(id) == {i \in 1..Len(results) : SessionId(results[i]) = id}
StampsOf(I, k) ==
  {Get(results[i].meta, k, Undef).v : i \in {j \in I : Truthy(Get(results[j].meta, k, Undef))}}
EventsOf(I) ==
  LET In(i) == i \in I
      RECURSIVE Cat(_)
      Cat(i) == IF i > Len(results) THEN <<>>
                ELSE (IF In(i) THEN results[i].events ELSE <<>>) \o Cat(i + 1)
  IN Cat(1)

\* C13: a deriveStatistics call that returns gives one SessionSummary per
\* distinct session id of the results, and so at least one for any result;
\* a session's totals are the numbers of events, of events at level Error and
\* of events at level Warn or Warning of the results with its id; its
\* logTypes are their log types, none twice; its earliest and latest
\* timestamps are the least and the greatest of those their meta carry.
C13_OneSessionPerId ==
  ~stats.thrown =>
    LET ss == stats.sessions IN
    /\ {ss[i].id : i \in 1..Len(ss)} = {SessionId(results[i]) : i \in 1..Len(results)}
    /\ \A i, j \in 1..Len(ss) : ss[i].id = ss[j].id => i = j
    /\ results # <<>> => Len(ss) >= 1
    /\ \A n \in 1..Len(ss) :
         LET I == ResultsOf(ss[n].id)
             es == EventsOf(I)
             early == StampsOf(I, "earliestTimestamp")
             late == StampsOf(I, "latestTimestamp")
         IN /\ ss[n].totals.events = Len(es)
            /\ ss[n].totals.errors =
                 Cardinality({k \in 1..Len(es) : es[k].level = "Error"})
            /\ ss[n].totals.warnings =
                 Cardinality({k \in 1..Len(es) : es[k].level \in {"Warn", "Warning"}})
            /\ {ss[n].logTypes[k] : k \in 1..Len(ss[n].logTypes)} =
                 {results[i].logType : i \in I}
            /\ \A k, l \in 1..Len(ss[n].logTypes) :
                 ss[n].logTypes[k] = ss[n].logTypes[l] => k = l
            /\ IF early = {} THEN ~Truthy(ss[n].earliestTimestamp)
                ELSE /\ ss[n].earliestTimestamp.v \in early
                     /\ \A t \in early : ss[n].earliestTimestamp.v <= t
            /\ IF late = {} THEN ~Truthy(ss[n].latestTimestamp)
                ELSE /\ ss[n].latestTimestamp.v \in late
                     /\ \A t \in late : ss[n].latestTimestamp.v >= t

\* One session of two results: the second result's meta widened both
\* timestamps of the session.
C13_Witness ==
  /\ ~stats.thrown
  /\ Len(results) = 2
  /\ Len(stats.sessions) = 1
  /\ stats.sessions[1].totals.events = 2
  /\ stats.sessions[1].earliestTimestamp # Get(results[1].meta, "earliestTimestamp", Undef)
  /\ stats.sessions[1].latestTimestamp # Get(results[1].meta, "latestTimestamp", Undef)

\* The status text accumulateQuest reads from an event (fields.questStatus,
\* else the message, lower-cased), and the branch it takes on it.
StatusText(e) ==
  IF FieldOf(e, "questStatus").t = "string" THEN Lower(FieldOf(e, "questStatus").v)
  ELSE IF e.message.t = "string" THEN Lower(e.message.v)
  ELSE ""
SaysCompleted(e) == Includes(StatusText(e), "completed") \/ StatusText(e) = "success"
SaysFailed(e) == ~SaysCompleted(e) /\ Includes(StatusText(e), "fail")
SaysStart(e) ==
  /\ ~SaysCompleted(e) /\ ~SaysFailed(e)
  /\ Includes(StatusText(e), "start") \/ Includes(StatusText(e), "description")
LastEvent(rs) == rs[Len(rs)].events[Len(rs[Len(rs)].events)]

\* C14: folding one more event, a quest that was "completed" or "failed"
\* keeps its status if the event's status text is a start or description
\* text, and a quest becomes "started" from "unknown" only; after the fold, a
\* quest whose last event with a completed or failed text says completed is
\* "completed" (and "failed" if that one says failed).
C14_StartedOnlyFromUnknown ==
  /\ [][(results' # results /\ ~stats'.thrown) =>
          \A i \in 1..Len(stats.quests) :
            LET q == stats.quests[i]
                r == stats'.quests[i]
            IN /\ r.id = q.id
               /\ (q.status \in {"completed", "failed"} /\ SaysStart(LastEvent(results')))
                    => r.status = q.status
               /\ (r.status = "started" /\ q.status # "started") => q.status = "unknown"]_vars
  /\ [](~stats.thrown =>
          \A i \in 1..Len(stats.quests) :
            LET q == stats.quests[i]
                K == {k \in 1..Len(q.relatedEvents) :
                        SaysCompleted(q.relatedEvents[k]) \/ SaysFailed(q.relatedEvents[k])}
            IN K # {} =>
                 LET last == CHOOSE k \in K : \A l \in K : l <= k
                 IN q.status = IF SaysCompleted(q.relatedEvents[last]) THEN "completed"
                               ELSE "failed")

\* A quest completed and then met by an event with a start text.
C14_Witness ==
  /\ ~stats.thrown
  /\ \E i \in 1..Len(stats.quests) :
       LET q == stats.quests[i] IN
       /\ q.status = "completed"
       /\ Len(q.relatedEvents) = 2
       /\ SaysCompleted(q.relatedEvents[1])
       /\ SaysStart(q.relatedEvents[2])

\* C15 as stated: folding one more backend event, a "request" adds one to
\* totalRequests and a "response" one to totalResponses (and nothing else
\* does); a request or response that carries a url adds one to
\* byEndpoint[url]; a response that carries a responseCode adds one to
\* byStatusCode[String(code)]; an event of a family other than request,
\* response, transport_error, server_exception and retry changes nothing.
C15_BackendCounts ==
  [][(results' # results /\ ~stats.thrown /\ ~stats'.thrown
        /\ LastEvent(results').logType = "backend") =>
       LET e == LastEvent(results')
           url == FieldOf(e, "url")
           code == FieldOf(e, "responseCode")
           b == stats.backend
           c == stats'.backend
       IN /\ c.totalRequests = b.totalRequests + (IF e.eventFamily = "request" THEN 1 ELSE 0)
          /\ c.totalResponses =
               b.totalResponses + (IF e.eventFamily = "response" THEN 1 ELSE 0)
          /\ (e.eventFamily \in {"request", "response"} /\ url # Undef) =>
               Get(c.byEndpoint, KeyOf(url), 0) = Get(b.byEndpoint, KeyOf(url), 0) + 1
          /\ (e.eventFamily = "response" /\ code # Undef) =>
               Get(c.byStatusCode, KeyOf(code), 0) = Get(b.byStatusCode, KeyOf(code), 0) + 1
          /\ e.eventFamily \notin {"request", "response", "transport_error",
                                   "server_exception", "retry"} => c = b]_vars

\* The names of the files of the import that parse, in the order of the
\* sorted files.
GoodFiles ==
  LET Good(f) == ~f.bad
      good == SelectSeq(imp.files, Good)
  IN [i \in 1..Len(good) |-> good[i].name]

\* C16: once parseAll has returned to importFiles, the hook's parsedResults
\* are the results of exactly the files that parsed, in the order of the
\* sorted files; the insights and the statistics of a completed import with
\* such a file were computed from that list.
C16_SuccessfulResultsInOrder ==
  /\ (imp.batch # 0 /\ imp.phase \in {"computing", "complete"}) =>
       hook.parsedResults = GoodFiles
  /\ (imp.batch # 0 /\ imp.phase = "complete" /\ GoodFiles # <<>>) =>
       /\ hook.insights = [from |-> GoodFiles]
       /\ hook.statistics = [from |-> GoodFiles]

\* An import of two files completed, the workers having answered in the
\* other order.
C16_Witness ==
  /\ imp.phase = "complete"
  /\ Len(hook.parsedResults) = 2
  /\ batches[imp.batch].order # batches[imp.batch].hs

\* C18 as stated: once the cleanup has run on an import in flight, that
\* import submits no further parse task and writes nothing to the hook's
\* state.
C18_AbortStopsImport ==
  [][(imp.aborted /\ InFlight) => (Len(tasks') = Len(tasks) /\ hook' = hook)]_vars

\* C19 as stated: an importFiles call that ends with no valid file (no .log
\* file selected, or no file parsed) leaves progress.status "error" and an
\* error message; one that ends with a parsed file and no exception leaves
\* progress.status "complete".
C19_ZeroValidFilesIsError ==
  /\ imp.phase = "returned" =>
       (hook.progress.status = "error" /\ hook.errorMessage # "null")
  /\ (imp.phase = "complete" /\ GoodFiles = <<>>) =>
       (hook.progress.status = "error" /\ hook.errorMessage # "null")
  /\ (imp.phase = "complete" /\ GoodFiles # <<>>) =>
       (hook.progress.status = "complete" /\ hook.errorMessage = "null")

\* the providers of ps that answer the lookup of id with an entry
Answering(ps, kind, id) ==
  {i \in 1..Len(ps) : GetById(ps[i], kind, id) \notin {Throw, Null}}
FirstOf(S) == CHOOSE i \in S : \A j \in S : i <= j
\* the calls of a lookup that asks the providers in list order and stops at
\* the first that answers
InOrder(ps, kind, id) ==
  LET n == IF Answering(ps, kind, id) = {} THEN Len(ps)
           ELSE FirstOf(Answering(ps, kind, id))
  IN [i \in 1..n |-> <<kind, id, i>>]
CallsFor(kind) == LET Is(c) == c[1] = kind IN SelectSeq(enriched.calls, Is)
\* what an enrichment call of kind op looked up at the providers
LooksUpQuest ==
  /\ enriched.op = "insights"
  /\ enriched.input.quests # <<>>
  /\ Q1 \notin DOMAIN enriched.questCache
LooksUpInsightsTrader ==
  /\ enriched.op = "insights"
  /\ ~enriched.thrown
  /\ enriched.output.quests # <<>>
  /\ Truthy(enriched.output.quests[1].traderId)
  /\ T1 \notin DOMAIN enriched.input.traders
  /\ T1 \notin DOMAIN enriched.traderCache
LooksUpItem ==
  /\ enriched.op = "statistics"
  /\ I1 \in DOMAIN enriched.input.items
  /\ I1 \notin DOMAIN enriched.itemCache
LooksUpStatisticsTrader ==
  /\ enriched.op = "statistics"
  /\ T1 \in DOMAIN enriched.input.traders
  /\ T1 \notin DOMAIN enriched.traderCache

\* C17: an enrichment lookup asks the providers in list order and stops at
\* the first that returns an entry, passing over every provider that throws
\* or returns null; the enriched quest, trader or item takes its name from
\* that first entry; when no provider returns an entry the quest, trader or
\* item comes back as it went in; and the enrichment call never rejects.
C17_FirstAvailableProvider ==
  enriched.op # "none" =>
    /\ ~enriched.thrown
    /\ LooksUpQuest =>
         LET A == Answering(providers, "quest", Q1)
             in == enriched.input.quests[1]
             out == enriched.output.quests[1]
         IN /\ CallsFor("quest") = InOrder(providers, "quest", Q1)
            /\ A = {} => out = in
            /\ A # {} =>
                 LET res == GetById(providers[FirstOf(A)], "quest", Q1)
                 IN /\ out.name = Coalesce(in.name, res.name)
                    /\ out.traderId = Coalesce(in.traderId, res.traderId)
    /\ LooksUpInsightsTrader =>
         LET A == Answering(providers, "trader", T1)
         IN /\ CallsFor("trader") = InOrder(providers, "trader", T1)
            /\ A = {} => enriched.output.traders = enriched.input.traders
            /\ A # {} => enriched.output.traders[T1].name =
                            GetById(providers[FirstOf(A)], "trader", T1).name
    /\ LooksUpItem =>
         LET A == Answering(providers, "item", I1)
         IN /\ CallsFor("item") = InOrder(providers, "item", I1)
            /\ A = {} => enriched.output.items = enriched.input.items
            /\ A # {} => enriched.output.items[I1].name =
                            GetById(providers[FirstOf(A)], "item", I1).name
    /\ LooksUpStatisticsTrader =>
         LET A == Answering(providers, "trader", T1)
         IN /\ CallsFor("trader") = InOrder(providers, "trader", T1)
            /\ A = {} => enriched.output.traders = enriched.input.traders
            /\ A # {} => enriched.output.traders[T1].name =
                            GetById(providers[FirstOf(A)], "trader", T1).name

\* a quest without a name was looked up, the first provider threw, and the
\* quest came back with the name the second provider holds
C17_Witness ==
  /\ LooksUpQuest
  /\ Len(providers) = 2
  /\ ~providers[1].loaded
  /\ Q1 \in providers[2].has
  /\ enriched.input.quests[1].name = Undef
  /\ ~enriched.thrown
  /\ enriched.output.quests[1].name = Named("quest", 2)

\* C20: while the pool is not terminated, after every parseAll call and
\* every onmessage and onerror handler no task waits in the queue while a
\* worker is in availableWorkers or has no request to work on, and the tasks
\* that wait are the ones submitted last, in submission order: the tasks
\* handed to workers so far are the first ones submitted.
C20_GreedyFifoDispatch ==
  ~isTerminated =>
    /\ pendingTasks # <<>> =>
         /\ availableWorkers = <<>>
         /\ \A w \in workers : channel[w] # <<>>
    /\ pendingTasks = [i \in 1..Len(pendingTasks) |->
                         Len(tasks) - Len(pendingTasks) + i]

\* of three tasks on a pool of one worker the first was answered, the second
\* is with the worker and the third waits
C20_Witness ==
  /\ ~isTerminated
  /\ poolSize = 1
  /\ Len(tasks) = 3
  /\ promise[1].state = "resolved"
  /\ channel[1] # <<>> /\ Head(channel[1]).src = 2
  /\ pendingTasks = <<3>>

\* the requests posted to workers and not answered yet
RECURSIVE Posted(_)
Posted(W) == IF W = {} THEN 0
             ELSE LET w == CHOOSE x \in W : TRUE
                  IN Len(channel[w]) + Posted(W \ {w})

\* C21: while the pool is not terminated every worker is idle (in
\* availableWorkers, with no request) or holds exactly one request, no worker
\* is in availableWorkers twice, and the requests in flight are at most
\* poolSize, whatever error events the workers raise.
C21_BoundedByPoolSize ==
  ~isTerminated =>
    /\ \A w \in workers :
         \/ Len(channel[w]) = 0 /\ \E i \in 1..Len(availableWorkers) : availableWorkers[i] = w
         \/ Len(channel[w]) = 1 /\ \A i \in 1..Len(availableWorkers) : availableWorkers[i] # w
    /\ \A i, j \in 1..Len(availableWorkers) :
         availableWorkers[i] = availableWorkers[j] => i = j
    /\ Posted(workers) <= poolSize

\* the tasks of batch b whose promise has resolved
ResolvedIn(b) == {i \in 1..Len(b.hs) : promise[b.hs[i]].state = "resolved"}

\* C22: the onProgress calls of a parseAll call are one per settled task, in
\* the order the tasks settled: the i-th call has completed = i, total = N
\* and latest = the result of the task that settled i-th, and there are as
\* many calls as settled tasks; parseAll has returned only with all N calls
\* made; and on a pool that is not terminated and whose workers answer,
\* every parseAll call makes its N calls and returns.
C22_OnProgressOncePerTask ==
  /\ [](\A bi \in 1..Len(batches) :
         LET b == batches[bi]
             N == Len(b.hs)
         IN /\ Len(b.calls) = Cardinality(ResolvedIn(b))
            /\ Len(b.calls) = Len(b.order)
            /\ \A i, j \in 1..Len(b.order) : b.order[i] = b.order[j] => i = j
            /\ \A i \in 1..Len(b.calls) :
                 /\ b.calls[i].completed = i
                 /\ b.calls[i].total = N
                 /\ b.calls[i].latest = promise[b.order[i]]
                 /\ b.calls[i].latest.id = tasks[b.order[i]].id
                 /\ \E k \in 1..N : b.hs[k] = b.order[i]
            /\ b.results # <<>> => Len(b.calls) = N)
  /\ \A bi \in 1..MaxTasks :
       (bi <= Len(batches)) ~>
          (/\ bi <= Len(batches)
           /\ batches[bi].results # <<>>
           /\ Len(batches[bi].calls) = Len(batches[bi].hs))

\* a parseAll call of two tasks returned after the second task settled
\* first: the first onProgress call carried the second task's result
C22_Witness ==
  \E bi \in 1..Len(batches) :
    LET b == batches[bi] IN
    /\ Len(b.hs) = 2
    /\ b.results # <<>>
    /\ b.order = <<b.hs[2], b.hs[1]>>
    /\ b.calls[1].completed = 1
    /\ b.calls[1].latest.id = tasks[b.hs[2]].id
    /\ b.calls[2].completed = 2

\* C23: on a terminated pool no step (a parseAll call, a late reply, a late
\* error event) posts a request to a worker, and after every step
\* getStatus() is {totalWorkers: 0, availableWorkers: 0, pendingTasks: 0,
\* isTerminated: true}.
C23_TerminateIsTerminal ==
  [][isTerminated =>
       /\ \A w \in Workers : Len(channel'[w]) <= Len(channel[w])
       /\ isTerminated'
       /\ Cardinality(workers') = 0
       /\ Len(availableWorkers') = 0
       /\ Len(pendingTasks') = 0]_vars

\* the numeric values of the field k in the events es that Is selects
RECURSIVE Samples(_, _, _)
Samples(es, Is(_), k) ==
  IF es = <<>> THEN <<>>
  ELSE (IF Is(Head(es)) /\ FieldOf(Head(es), k).t = "number"
          THEN <<FieldOf(Head(es), k).v>> ELSE <<>>)
       \o Samples(Tail(es), Is, k)
RECURSIVE SumSeq(_)
SumSeq(q) == IF q = <<>> THEN 0 ELSE Head(q) + SumSeq(Tail(q))
\* avg is the arithmetic mean of the values q
IsMeanOf(avg, q) == avg.n * Len(q) = SumSeq(q) * avg.d
IsStatistics(e) == e.logType = "network-connection" /\ e.eventFamily = "statistics"
IsMessage(e) == e.logType = "network-messages"

\* C24: after a fold, rttAvg, rpiAvg and ludAvg are each the arithmetic mean
\* of the numeric values of rtt, rpi and lud in the events folded (rtt in
\* network-connection statistics events, rpi and lud in network-messages
\* events), also when some of those events lack the field.
C24_RunningAverageIsMean ==
  ~stats.thrown =>
    LET es == AllEvents(results)
        m == stats.network.metrics
        rtt == Samples(es, IsStatistics, "rtt")
        rpi == Samples(es, IsMessage, "rpi")
        lud == Samples(es, IsMessage, "lud")
    IN /\ rtt # <<>> => IsMeanOf(m["rttAvg"], rtt)
       /\ rpi # <<>> => IsMeanOf(m["rpiAvg"], rpi)
       /\ lud # <<>> => IsMeanOf(m["ludAvg"], lud)

\* the sum of the counter c over the addresses of byAddress
RECURSIVE SumByAddress(_, _)
SumByAddress(m, c) ==
  IF DOMAIN m = {} THEN 0
  ELSE LET a == CHOOSE x \in DOMAIN m : TRUE
       IN m[a][c] + SumByAddress([x \in DOMAIN m \ {a} |-> m[x]], c)
\* the network-connection events of es of the families fams, and those of
\* them with no address
CountFamilies(es, fams) ==
  Cardinality({i \in 1..Len(es) : /\ es[i].logType = "network-connection"
                                  /\ es[i].eventFamily \in fams})
CountNoAddress(es, fams) ==
  Cardinality({i \in 1..Len(es) : /\ es[i].logType = "network-connection"
                                  /\ es[i].eventFamily \in fams
                                  /\ FieldOf(es[i], "address") = Undef})

\* C25: after a fold network.connections, network.disconnects and
\* network.timeouts are the numbers of connect/state_enter,
\* disconnect/send_disconnect and timeout events folded, each equals the sum
\* of the counter of its kind over byAddress, and the events that carry no
\* address are counted under the address "unknown".
C25_GlobalEqualsPerAddress ==
  ~stats.thrown =>
    LET es == AllEvents(results)
        n == stats.network
        unknown == Get(n.byAddress, "unknown", [connect |-> 0, disconnect |-> 0, timeout |-> 0])
    IN /\ n.connections = SumByAddress(n.byAddress, "connect")
       /\ n.disconnects = SumByAddress(n.byAddress, "disconnect")
       /\ n.timeouts = SumByAddress(n.byAddress, "timeout")
       /\ n.connections = CountFamilies(es, {"connect", "state_enter"})
       /\ n.disconnects = CountFamilies(es, {"disconnect", "send_disconnect"})
       /\ n.timeouts = CountFamilies(es, {"timeout"})
       /\ unknown.connect = CountNoAddress(es, {"connect", "state_enter"})
       /\ unknown.disconnect = CountNoAddress(es, {"disconnect", "send_disconnect"})
       /\ unknown.timeout = CountNoAddress(es, {"timeout"})

\* a disconnect without an address and a timeout with one were folded
C25_Witness ==
  /\ ~stats.thrown
  /\ stats.network.disconnects = 1
  /\ stats.network.timeouts = 1
  /\ "unknown" \in DOMAIN stats.network.byAddress
  /\ stats.network.byAddress["unknown"].disconnect = 1
  /\ Cardinality(DOMAIN stats.network.byAddress) = 2

\* the trader ids the events of es carry for the quest id, in order
RECURSIVE TraderIdsFor(_, _)
TraderIdsFor(es, id) ==
  IF es = <<>> THEN <<>>
  ELSE (IF FindQuestId(Head(es)) = id /\ Truthy(FieldOf(Head(es), "questTraderId"))
          THEN <<FieldOf(Head(es), "questTraderId")>> ELSE <<>>)
       \o TraderIdsFor(Tail(es), id)

\* C26: after a fold a quest's traderId is the questTraderId of the first
\* event of that quest that carries one (undefined when none does), every
\* traderId on a quest has an entry of kind "trader" under that id in
\* statistics.traders, and folding one more event never changes a traderId
\* that was set.
C26_TraderIdFirstWriteWins ==
  /\ [](~stats.thrown =>
         \A i \in 1..Len(stats.quests) :
           LET q == stats.quests[i]
               ids == TraderIdsFor(AllEvents(results), q.id)
           IN /\ q.traderId = (IF ids = <<>> THEN Undef ELSE ids[1])
              /\ Truthy(q.traderId) =>
                   /\ KeyOf(q.traderId) \in DOMAIN stats.traders
                   /\ stats.traders[KeyOf(q.traderId)] =
                        [id |-> KeyOf(q.traderId), kind |-> "trader"])
  /\ [][(~stats.thrown /\ ~stats'.thrown) =>
          \A i \in 1..Len(stats.quests) :
            Truthy(stats.quests[i].traderId) =>
              /\ i <= Len(stats'.quests)
              /\ stats'.quests[i].id = stats.quests[i].id
              /\ stats'.quests[i].traderId = stats.quests[i].traderId]_vars

\* a quest with two events that name different traders keeps the first
C26_Witness ==
  /\ ~stats.thrown
  /\ \E i \in 1..Len(stats.quests) :
       LET ids == TraderIdsFor(AllEvents(results), stats.quests[i].id)
       IN /\ Len(ids) = 2
          /\ ids[1] # ids[2]
          /\ stats.quests[i].traderId = ids[1]

\* C27: from reset() until the next importFiles call is started, the hook's
\* parsedResults are empty, its insights and statistics are null and its
\* progress is idle.
C27_ResetHolds ==
  imp.reset =>
    /\ hook.parsedResults = <<>>
    /\ hook.insights = Null
    /\ hook.statistics = Null
    /\ hook.progress = initialProgress

\* C28: with importFiles calls that overlap, every task that settled with
\* a result got the result parsed from its own content: the result
\* delivered at position i of an import is that of the import's i-th file.
C28_OwnResultsOnly ==
  \A h \in Submitted :
    (promise[h].state = "resolved" /\ promise[h].success) => promise[h].src = h

\* C29: with importFiles calls that overlapped, once every call has
\* finished, the insights and the statistics of the hook were computed from
\* the list that is the hook's parsedResults.
C29_OneSnapshot ==
  (/\ \E k \in 1..Len(imports) : imports[k].overlapped
   /\ \A k \in 1..Len(imports) : ~Running(imports[k])) =>
     /\ hook.insights # Null => hook.insights.from = hook.parsedResults
     /\ hook.statistics # Null => hook.statistics.from = hook.parsedResults

\* the quest enrichInsights returns when nothing is cached: the provider path
\* of the callback on the quest it was handed
FromProvider == EnrichQuest(enriched.input.quests[1], providers, EmptyMap).quest

\* enrichInsights served its quest from questCache, and the providers of this
\* import answer for that quest what the cache entry was made from
ServedFromCache ==
  /\ enriched.op = "insights"
  /\ ~enriched.thrown
  /\ enriched.input.quests # <<>>
  /\ Q1 \in DOMAIN enriched.questCache
  /\ LET r == FirstAvailable(providers, "quest", Q1).res
     IN IF r = Throw \/ ~Truthy(r) THEN FALSE
        ELSE /\ r.name = enriched.questCache[Q1].name
             /\ r.traderId = enriched.questCache[Q1].traderId

\* C30: the quest cache is transparent.  When enrichInsights serves a quest
\* from questCache and the providers hold for it the data the cache entry was
\* made from, the quest it returns has the name, the traderId and the
\* traderName that the provider path returns for the same quest.
C30_CacheTransparent ==
  ServedFromCache =>
    /\ enriched.output.quests[1].name = FromProvider.name
    /\ enriched.output.quests[1].traderId = FromProvider.traderId
    /\ enriched.output.quests[1].traderName = FromProvider.traderName

====
